---- MODULE Spec2Model ----
(***************************************************************************)
(* Model of libunifiedcore: the UnifiedCoreManager lifecycle manager, the  *)
(* two engine adapters (V2RayCoreManager, MihomoCoreManager) and the       *)
(* background goroutines the adapters spawn.                               *)
(*                                                                         *)
(* Host calls are made by a small set of caller threads.  An operation     *)
(* that holds UnifiedCoreManager.mu is split only where another goroutine  *)
(* can observe a difference; adapter methods run under the adapter mutex   *)
(* and are one step each.  time.Sleep is not a synchronisation: any        *)
(* interleaving of the background goroutines with the callers is allowed.  *)
(***************************************************************************)
EXTENDS Integers, Sequences, FiniteSets, TLC

\* ---------------------------------------------------------------- bounds
\* number of calls the host makes on the exported methods in one behaviour;
\* every call creates at most one manager context and one goroutine
MaxCalls == 3
RunIds == 1..MaxCalls
\* host threads that can call into the managers concurrently
NumCallers == 2
Callers == 1..NumCallers

\* ------------------------------------------------------------ core_types
CoreTypeV2Ray == 0
CoreTypeXray == 1
CoreTypeMihomo == 2
CoreTypeClash == CoreTypeMihomo
CoreTypeInvalid == 0 - 1

IsValid(ct) == ct >= CoreTypeV2Ray /\ ct <= CoreTypeMihomo

DisplayName(ct) ==
    CASE ct = CoreTypeV2Ray -> "V2Ray"
      [] ct = CoreTypeXray -> "Xray"
      [] ct = CoreTypeMihomo -> "Mihomo"
      [] OTHER -> "Unknown"

\* strings that are inspected character by character are sequences of
\* one-character strings

Upper == <<"A", "C", "E", "H", "I", "L", "M", "O", "R", "S", "T", "V", "X", "Y">>
Lower == <<"a", "c", "e", "h", "i", "l", "m", "o", "r", "s", "t", "v", "x", "y">>

LowerChar(ch) ==
    IF \E i \in 1..Len(Upper) : Upper[i] = ch
    THEN Lower[CHOOSE i \in 1..Len(Upper) : Upper[i] = ch]
    ELSE ch

ToLower(s) == [i \in 1..Len(s) |-> LowerChar(s[i])]

IsSpace(ch) == ch \in {" ", "\t", "\n", "\r"}

RECURSIVE TrimLeft(_)
TrimLeft(s) ==
    IF s # <<>> /\ IsSpace(Head(s)) THEN TrimLeft(Tail(s)) ELSE s

RECURSIVE TrimRight(_)
TrimRight(s) ==
    IF s # <<>> /\ IsSpace(s[Len(s)]) THEN TrimRight(SubSeq(s, 1, Len(s) - 1)) ELSE s

TrimSpace(s) == TrimRight(TrimLeft(s))

\* ParseCoreType with "v2ray" folded into the Xray type
ParseCoreTypeFolded(coreTypeStr) ==
    LET k == ToLower(TrimSpace(coreTypeStr)) IN
    CASE k \in {<<"v", "2", "r", "a", "y">>, <<"x", "r", "a", "y">>} ->
           [type |-> CoreTypeXray, err |-> FALSE]
      [] k \in {<<"m", "i", "h", "o", "m", "o">>, <<"c", "l", "a", "s", "h">>,
                <<"c", "l", "a", "s", "h", "-", "m", "e", "t", "a">>} ->
           [type |-> CoreTypeMihomo, err |-> FALSE]
      [] OTHER -> [type |-> CoreTypeInvalid, err |-> TRUE]

\* ParseCoreType whose default case falls back to Mihomo instead of failing
ParseCoreTypeLenient(coreTypeStr) ==
    LET k == ToLower(TrimSpace(coreTypeStr)) IN
    CASE k = <<"v", "2", "r", "a", "y">> -> [type |-> CoreTypeV2Ray, err |-> FALSE]
      [] k = <<"x", "r", "a", "y">> -> [type |-> CoreTypeXray, err |-> FALSE]
      [] OTHER -> [type |-> CoreTypeMihomo, err |-> FALSE]

\* ParseCoreType that trims but compares without lowering the case
ParseCoreTypeCaseSensitive(coreTypeStr) ==
    LET k == TrimSpace(coreTypeStr) IN
    CASE k = <<"v", "2", "r", "a", "y">> -> [type |-> CoreTypeV2Ray, err |-> FALSE]
      [] k = <<"x", "r", "a", "y">> -> [type |-> CoreTypeXray, err |-> FALSE]
      [] k \in {<<"m", "i", "h", "o", "m", "o">>, <<"c", "l", "a", "s", "h">>,
                <<"c", "l", "a", "s", "h", "-", "m", "e", "t", "a">>} ->
           [type |-> CoreTypeMihomo, err |-> FALSE]
      [] OTHER -> [type |-> CoreTypeInvalid, err |-> TRUE]

\* ParseCoreType: the CoreType, or CoreTypeInvalid together with an error
ParseCoreType(coreTypeStr) ==
    LET k == ToLower(TrimSpace(coreTypeStr)) IN
    CASE k = <<"v", "2", "r", "a", "y">> -> [type |-> CoreTypeV2Ray, err |-> FALSE]
      [] k = <<"x", "r", "a", "y">> -> [type |-> CoreTypeXray, err |-> FALSE]
      [] k = <<"m", "i", "h", "o", "m", "o">> -> [type |-> CoreTypeMihomo, err |-> FALSE]
      [] k = <<"c", "l", "a", "s", "h">> -> [type |-> CoreTypeMihomo, err |-> FALSE]
      [] k = <<"c", "l", "a", "s", "h", "-", "m", "e", "t", "a">> -> [type |-> CoreTypeMihomo, err |-> FALSE]
      [] OTHER -> [type |-> CoreTypeInvalid, err |-> TRUE]

\* ------------------------------------------------- number conversions
Digits == <<"0", "1", "2", "3", "4", "5", "6", "7", "8", "9">>
IsDigit(ch) == \E i \in 1..10 : Digits[i] = ch
DigitVal(ch) == (CHOOSE i \in 1..10 : Digits[i] = ch) - 1

RECURSIVE DigitsVal(_)
DigitsVal(s) ==
    IF s = <<>> THEN 0 ELSE DigitsVal(SubSeq(s, 1, Len(s) - 1)) * 10 + DigitVal(s[Len(s)])

\* strconv.Atoi: an optional sign followed by one or more decimal digits
Atoi(s) ==
    LET signed == s # <<>> /\ s[1] \in {"+", "-"}
        body == IF signed THEN Tail(s) ELSE s
    IN IF body = <<>> \/ \E i \in 1..Len(body) : ~IsDigit(body[i])
       THEN [ok |-> FALSE, val |-> 0]
       ELSE [ok |-> TRUE,
             val |-> IF signed /\ s[1] = "-" THEN 0 - DigitsVal(body) ELSE DigitsVal(body)]

\* int(float64): truncation toward zero; a JSON number is kept in tenths
IntOfFloat(tenths) ==
    IF tenths >= 0 THEN tenths \div 10 ELSE 0 - ((0 - tenths) \div 10)

\* index of the last ':' of a string, or -1 (RunConfig lines 218-224)
RECURSIVE LastColon(_, _)
LastColon(s, i) ==
    IF i < 1 THEN 0 - 1
    ELSE IF s[i] = ":" THEN i - 1
    ELSE LastColon(s, i - 1)

\* --------------------------------------------------- configuration files
\* The file system the host passes paths of.  A file is described by what
\* the code reads of it: whether os.ReadFile succeeds, whether it is JSON,
\* its coreType / mixed-port / external-controller / coreConfig fields and
\* whether the engine library accepts the document.
Absent == [kind |-> "absent"]
Number(tenths) == [kind |-> "number", tenths |-> tenths]
String(chars) == [kind |-> "string", chars |-> chars]

File(readable, json, coreType, mixed, ctrl, coreConfig, engineOK) ==
    [readable |-> readable, json |-> json, coreType |-> coreType,
     mixed |-> mixed, ctrl |-> ctrl, coreConfig |-> coreConfig, engineOK |-> engineOK]

Paths == {"x.json", "m.json", "v.json", "c.json", "gone.json", "bad.json", "nokey.json", "unk.json"}

FileOf(p) ==
    CASE p = "x.json" ->
           File(TRUE, TRUE, String(<<"x", "r", "a", "y">>), Absent, Absent, "absent", TRUE)
      [] p = "m.json" ->
           File(TRUE, TRUE, String(<<" ", "M", "i", "h", "o", "m", "o", " ">>), Number(78905),
                String(<<"l", "o", ":", "9", "0", "9", "0">>), "absent", TRUE)
      [] p = "v.json" ->
           File(TRUE, TRUE, String(<<"V", "2", "R", "A", "Y">>), Absent, Absent, "map", FALSE)
      [] p = "c.json" ->
           File(TRUE, TRUE, String(<<"c", "l", "a", "s", "h", "-", "m", "e", "t", "a">>),
                Number(700000), String(<<"9", "0", "9", "0">>), "absent", FALSE)
      [] p = "gone.json" ->
           File(FALSE, FALSE, Absent, Absent, Absent, "absent", FALSE)
      [] p = "bad.json" ->
           File(TRUE, FALSE, Absent, Absent, Absent, "absent", FALSE)
      [] p = "nokey.json" ->
           File(TRUE, TRUE, Number(10), Absent, Absent, "absent", TRUE)
      [] OTHER ->
           File(TRUE, TRUE, String(<<"s", "i", "n", "g", "-", "b", "o", "x">>), Absent, Absent, "absent", TRUE)

\* the files, read once
Files == [p \in Paths |-> FileOf(p)]

\* the number of times an injector is applied to a document
MaxInject == 2

\* ---------------------------------------------------------------- state
VARIABLES
    u,            \* UnifiedCoreManager objects: manager id -> fields
    mu,           \* UnifiedCoreManager.mu: 0, or the caller holding the write lock
    call,         \* per host thread: the call in progress and its locals
    ret,          \* the call that returned in the last step (NoRet otherwise)
    calls,        \* number of host calls made so far
    runs,         \* number of manager contexts created (context.WithCancel, line 243)
    tokCancelled, \* manager contexts whose cancel function has been invoked
    v2,           \* globalV2RayManager (V2RayCoreManager fields)
    mh,           \* globalMihomoManager (MihomoCoreManager fields)
    ctxCancelled, \* adapter contexts (named by run id) that have been cancelled
    gor,          \* background goroutines runConfigSync / runCoreAsync, by run id
    inst,         \* xray core.Instance objects, by the run id that created them
    applied,      \* Mihomo engine (hub/executor global state): run id applied, or 0
    doc,          \* the configuration document a pure function is applied to
    logs,         \* the Mihomo log subscription and the log-writer goroutines
    reg           \* the adapter objects made and the package variables that hold them

vars == <<u, mu, call, ret, calls, runs, tokCancelled, v2, mh, ctxCancelled, gor, inst,
          applied, doc, logs, reg>>

\* the manager objects are fixed by the initial state
Mgrs == DOMAIN u

\* NewUnifiedCoreManager
NewUnifiedCoreManager ==
    [coreType |-> CoreTypeXray, running |-> FALSE, cancel |-> 0,
     socksPort |-> 0, apiPort |-> 0, configPath |-> "",
     v2rayManager |-> FALSE, mihomoManager |-> FALSE]

\* NewV2RayCoreManager / NewMihomoCoreManager; exists = FALSE is the nil global
\* (the adapters' copies of the ports, asset path and log level are written
\* by the manager and read only by config injection and GetStats)
NoV2Ray ==
    [exists |-> FALSE, isRunning |-> FALSE, instance |-> 0, ctx |-> 0, shouldOff |-> 0]
NewV2RayCoreManager == [NoV2Ray EXCEPT !.exists = TRUE]

NoMihomo == [exists |-> FALSE, isRunning |-> FALSE, ctx |-> 0]
NewMihomoCoreManager == [NoMihomo EXCEPT !.exists = TRUE]

NoGor == [kind |-> "none", pc |-> "none", path |-> "", ctx |-> 0]
NoRet == [op |-> "none"]
Idle == [pc |-> "idle", op |-> "none", m |-> 0, path |-> "", newType |-> 0,
         wasRunning |-> FALSE, wasType |-> 0, began |-> FALSE]

\* a host thread that makes no call in the behaviours of a specification
Off == [Idle EXCEPT !.pc = "off"]

\* no document is being prepared
NoDoc == [family |-> "none"]

\* m.logSubscriber is nil and no log writer has been started; a
\* subscription and its writer are named by the run id of the goroutine
\* that called startLogSubscription
NoLogs ==
    [subscriber |-> 0, closed |-> {},
     writer |-> [g \in RunIds |-> [pc |-> "none", sub |-> 0]]]

\* the engine families, each with one package variable (globalV2RayManager,
\* globalMihomoManager); an adapter object is named by a positive number and
\* 0 is nil
Families == {"v2ray", "mihomo"}
Waiting == [pc |-> "idle", op |-> "none", m |-> 0, family |-> "none", isNil |-> FALSE]
NoRegistry ==
    [global |-> [f \in Families |-> 0], made |-> [f \in Families |-> 0],
     used |-> [f \in Families |-> {}], thread |-> [c \in Callers |-> Waiting]]

\* the initial state of the locks, host threads, adapters and goroutines
Threads(mgrs, callers) ==
    /\ mu = [m \in mgrs |-> 0]
    /\ call = [c \in Callers |-> IF c \in callers THEN Idle ELSE Off]
    /\ ret = NoRet
    /\ calls = 0
    /\ runs = 0
    /\ tokCancelled = {}
    /\ v2 = NoV2Ray
    /\ mh = NoMihomo
    /\ ctxCancelled = {}
    /\ gor = [g \in RunIds |-> NoGor]
    /\ inst = [g \in RunIds |-> "none"]
    /\ applied = 0
    /\ logs = NoLogs
    /\ reg = NoRegistry

\* the initial state of the managers, adapters and goroutines
Lifecycle(mgrs, callers) ==
    /\ u = [m \in mgrs |-> NewUnifiedCoreManager]
    /\ Threads(mgrs, callers)

\* the managers created by the host and the threads it calls them from
InitWith(mgrs, callers) ==
    /\ doc = NoDoc
    /\ Lifecycle(mgrs, callers)

Init == InitWith({1}, {1})

\* ------------------------------------------------------ engine adapters
V2RayFamily == {CoreTypeV2Ray, CoreTypeXray}

\* Stop without the early return on an adapter that is not running
V2RayStopAlways(v, cancelled, ins) ==
    [v2 |-> [v EXCEPT !.shouldOff = 1, !.instance = 0, !.isRunning = FALSE],
     cancelled |-> IF v.ctx # 0 THEN cancelled \cup {v.ctx} ELSE cancelled,
     inst |-> IF v.instance # 0 THEN [ins EXCEPT ![v.instance] = "closed"] ELSE ins]

\* V2RayCoreManager.Stop: the adapter, the cancelled contexts and the
\* instances after the call (it always returns nil)
V2RayStop(v, cancelled, ins) ==
    IF ~v.isRunning
    THEN [v2 |-> v, cancelled |-> cancelled, inst |-> ins]
    ELSE [v2 |-> [v EXCEPT !.shouldOff = 1, !.instance = 0, !.isRunning = FALSE],
          cancelled |-> IF v.ctx # 0 THEN cancelled \cup {v.ctx} ELSE cancelled,
          inst |-> IF v.instance # 0 THEN [ins EXCEPT ![v.instance] = "closed"] ELSE ins]

\* MihomoCoreManager.Stop (it always returns nil)
MihomoStop(m, cancelled) ==
    IF ~m.isRunning
    THEN [mh |-> m, cancelled |-> cancelled]
    ELSE [mh |-> [m EXCEPT !.isRunning = FALSE],
          cancelled |-> IF m.ctx # 0 THEN cancelled \cup {m.ctx} ELSE cancelled]

\* V2RayCoreManager.RunConfig: id names the context created and the
\* goroutine spawned by this call
V2RayRunConfig(v, id) ==
    IF v.isRunning
    THEN [err |-> "already running", v2 |-> v, spawn |-> FALSE]
    ELSE [err |-> "nil", v2 |-> [v EXCEPT !.ctx = id, !.isRunning = TRUE], spawn |-> TRUE]

\* V2RayCoreManager.readAndInjectConfig followed by serial.LoadJSONConfig
V2RayLoadError(f) ==
    IF ~f.readable THEN "failed to read config file"
    ELSE IF ~f.json THEN "failed to parse config JSON"
    ELSE IF f.coreConfig \notin {"absent", "map"} THEN "invalid coreConfig format in wrapper"
    ELSE IF ~f.engineOK THEN "invalid V2Ray configuration"
    ELSE "nil"

\* MihomoCoreManager.prepareConfigBytes
MihomoPrepareError(f) ==
    IF ~f.readable THEN "failed to read config file"
    ELSE IF ~f.json THEN "failed to parse config as YAML or JSON"
    ELSE "nil"

\* MihomoCoreManager.RunConfig; envOK is the outcome of setupEnvironment
MihomoRunConfig(m, id, envOK, f) ==
    IF m.isRunning
    THEN [err |-> "already running", mh |-> m, spawn |-> FALSE]
    ELSE IF ~envOK
    THEN [err |-> "failed to setup environment", mh |-> m, spawn |-> FALSE]
    ELSE IF MihomoPrepareError(f) # "nil"
    THEN [err |-> "failed to prepare config", mh |-> m, spawn |-> FALSE]
    ELSE [err |-> "nil", mh |-> [m EXCEPT !.ctx = id, !.isRunning = TRUE], spawn |-> TRUE]

\* --------------------------------------------------- config injection
\* A configuration document is a function from its top-level keys to
\* values; Absent is a key the document does not have.
List(items) == [kind |-> "list", items |-> items]
Map(entries) == [kind |-> "map", entries |-> entries]
Value(v) == [kind |-> "value", v |-> v]
Other == [kind |-> "other"]

V2RayKeys == {"inbounds", "api", "stats", "policy", "routing", "outbounds"}

\* the entries injectRequiredConfig builds (V2Ray)
SocksInbound(socksPort) ==
    [tag |-> "tun2socks-in", port |-> socksPort, listen |-> "127.0.0.1", protocol |-> "socks"]
APIInbound(apiPort) ==
    [tag |-> "api-in", port |-> apiPort, listen |-> "127.0.0.1", protocol |-> "dokodemo-door"]
APIRule == [type |-> "field", inboundTag |-> "api-in", outboundTag |-> "api"]
APIOutbound == [tag |-> "api", protocol |-> "blackhole"]
StatsSystem == [statsInboundUplink |-> TRUE, statsInboundDownlink |-> TRUE]

\* "Configure policy for stats": the policy value after injection
InjectPolicy(policy) ==
    IF policy = Absent THEN Map([system |-> Map(StatsSystem)])
    ELSE IF policy.kind # "map" THEN policy
    ELSE IF policy.entries.system = Absent
    THEN Map([system |-> Map(StatsSystem)])
    ELSE IF policy.entries.system.kind = "map"
    THEN Map([system |-> Map([policy.entries.system.entries EXCEPT
                                 !.statsInboundUplink = TRUE,
                                 !.statsInboundDownlink = TRUE])])
    ELSE policy

\* "Configure routing": the routing value after injection
InjectRouting(routing) ==
    IF routing = Absent THEN Map([rules |-> List(<<APIRule>>)])
    ELSE IF routing.kind # "map" THEN routing
    ELSE IF routing.entries.rules = Absent
    THEN Map([rules |-> List(<<APIRule>>)])
    ELSE IF routing.entries.rules.kind = "list"
    THEN Map([rules |-> List(<<APIRule>> \o routing.entries.rules.items)])
    ELSE routing

\* V2RayCoreManager.injectRequiredConfig
V2RayInjectRequiredConfig(config, params) ==
    LET inbounds == IF config["inbounds"] = Absent THEN <<>> ELSE config["inbounds"].items
        outbounds == IF config["outbounds"] = Absent THEN <<>> ELSE config["outbounds"].items
    IN [config EXCEPT
          !["inbounds"] = List(<<APIInbound(params.apiPort), SocksInbound(params.socksPort)>>
                               \o inbounds),
          !["api"] = Map([tag |-> "api"]),
          !["stats"] = Map(<<>>),
          !["policy"] = InjectPolicy(@),
          !["routing"] = InjectRouting(@),
          !["outbounds"] = List(outbounds \o <<APIOutbound>>)]

MihomoControlKeys == {"mixed-port", "bind-address", "external-controller", "allow-lan",
                      "log-level"}
MihomoDefaultKeys == {"mode", "proxies", "proxy-groups", "rules", "dns"}
MihomoKeys == MihomoControlKeys \cup MihomoDefaultKeys \cup {"log-file"}

\* the defaults injectRequiredConfig adds for a key that is absent (Mihomo)
MihomoDefault(key) ==
    CASE key = "mode" -> Value("rule")
      [] key = "proxies" -> List(<<"DIRECT">>)
      [] key = "proxy-groups" -> List(<<"PROXY">>)
      [] key = "rules" -> List(<<"MATCH,PROXY">>)
      [] key = "dns" -> Map([listen |-> "127.0.0.1:1053"])

\* filepath.Join of a directory, given by its components, and a name
Join(dir, name) == dir \o <<name>>

\* the fallback log file: <assetPath or configDir>/log/core.log
FallbackLogFile(params) ==
    LET logDir == IF params.assetPath = <<>> /\ params.configDir # <<>>
                  THEN Join(params.configDir, "log")
                  ELSE Join(params.assetPath, "log")
    IN Value(Join(logDir, "core.log"))

\* an injector that treats mode as a mandatory field
MihomoInjectOverwritesMode(config, params) ==
    [key \in MihomoKeys |->
       CASE key = "mixed-port" -> Value(params.socksPort)
         [] key = "bind-address" -> Value("127.0.0.1")
         [] key = "external-controller" -> Value(<<"127.0.0.1", params.apiPort>>)
         [] key = "allow-lan" -> Value(FALSE)
         [] key = "log-level" -> Value(params.logLevel)
         [] key = "mode" -> MihomoDefault(key)
         [] key = "log-file" ->
              IF config[key] = Absent THEN FallbackLogFile(params) ELSE config[key]
         [] OTHER -> IF config[key] = Absent THEN MihomoDefault(key) ELSE config[key]]

\* MihomoCoreManager.injectRequiredConfig
MihomoInjectRequiredConfig(config, params) ==
    [key \in MihomoKeys |->
       CASE key = "mixed-port" -> Value(params.socksPort)
         [] key = "bind-address" -> Value("127.0.0.1")
         [] key = "external-controller" -> Value(<<"127.0.0.1", params.apiPort>>)
         [] key = "allow-lan" -> Value(FALSE)
         [] key = "log-level" -> Value(params.logLevel)
         [] key = "log-file" ->
              IF config[key] = Absent THEN FallbackLogFile(params) ELSE config[key]
         [] OTHER -> IF config[key] = Absent THEN MihomoDefault(key) ELSE config[key]]

\* ------------------------------------ V2RayCoreManager.runConfigSync
\* A step of a goroutine is not a return of a host call.
Bg == /\ ret' = NoRet
      /\ UNCHANGED <<u, mu, call, calls, runs, tokCancelled, doc, reg>>

\* readAndInjectConfig + LoadJSONConfig (lines 98-110)
V2Load(g) ==
    /\ gor[g].kind = "v2ray" /\ gor[g].pc = "load"
    /\ gor' = [gor EXCEPT ![g].pc =
                 IF V2RayLoadError(Files[gor[g].path]) = "nil" THEN "check" ELSE "failed"]
    /\ Bg /\ UNCHANGED <<v2, mh, ctxCancelled, inst, applied, logs>>

\* "Check if already running" (lines 112-119)
V2Check(g) ==
    /\ gor[g].kind = "v2ray" /\ gor[g].pc = "check"
    /\ gor' = [gor EXCEPT ![g].pc = IF v2.instance # 0 THEN "exit" ELSE "new"]
    /\ Bg /\ UNCHANGED <<v2, mh, ctxCancelled, inst, applied, logs>>

\* core.New and v.instance = instance (lines 121-130)
V2New(g) ==
    /\ gor[g].kind = "v2ray" /\ gor[g].pc = "new"
    /\ \E ok \in BOOLEAN :
         IF ok
         THEN /\ inst' = [inst EXCEPT ![g] = "created"]
              /\ v2' = [v2 EXCEPT !.instance = g]
              /\ gor' = [gor EXCEPT ![g].pc = "start"]
         ELSE /\ gor' = [gor EXCEPT ![g].pc = "failed"]
              /\ UNCHANGED <<inst, v2>>
    /\ Bg /\ UNCHANGED <<mh, ctxCancelled, applied, logs>>

\* instance.Start() on the goroutine's own instance (lines 132-140): it
\* returns nil, returns an error, or panics; a panic unwinds to the
\* deferred function without passing lines 134-139
V2Start(g) ==
    /\ gor[g].kind = "v2ray" /\ gor[g].pc = "start"
    /\ \E outcome \in {"nil", "error", "panic"} :
         CASE outcome = "nil" ->
                /\ inst' = [inst EXCEPT ![g] = "started"]
                /\ gor' = [gor EXCEPT ![g].pc = "wait"]
                /\ UNCHANGED v2
           [] outcome = "error" ->
                /\ v2' = [v2 EXCEPT !.instance = 0]
                /\ gor' = [gor EXCEPT ![g].pc = "failed"]
                /\ UNCHANGED inst
           [] outcome = "panic" ->
                /\ gor' = [gor EXCEPT ![g].pc = "failed"]
                /\ UNCHANGED <<v2, inst>>
    /\ Bg /\ UNCHANGED <<mh, ctxCancelled, applied, logs>>

\* entering the select: the channel operands v.shouldOff and v.ctx.Done()
\* are evaluated once, on entry (lines 147-153)
V2Wait(g) ==
    /\ gor[g].kind = "v2ray" /\ gor[g].pc = "wait"
    /\ gor' = [gor EXCEPT ![g].pc = "select", ![g].ctx = v2.ctx]
    /\ Bg /\ UNCHANGED <<v2, mh, ctxCancelled, inst, applied, logs>>

\* the select fires: a value received from shouldOff, or the context done
V2Select(g) ==
    /\ gor[g].kind = "v2ray" /\ gor[g].pc = "select"
    /\ \/ /\ v2.shouldOff > 0
          /\ v2' = [v2 EXCEPT !.shouldOff = 0]
       \/ /\ gor[g].ctx \in ctxCancelled
          /\ UNCHANGED v2
    /\ gor' = [gor EXCEPT ![g].pc = "cleanup"]
    /\ Bg /\ UNCHANGED <<mh, ctxCancelled, inst, applied, logs>>

\* "Cleanup" (lines 155-162): closes whatever v.instance refers to
V2Cleanup(g) ==
    /\ gor[g].kind = "v2ray" /\ gor[g].pc = "cleanup"
    /\ inst' = IF v2.instance # 0 THEN [inst EXCEPT ![v2.instance] = "closed"] ELSE inst
    /\ v2' = [v2 EXCEPT !.instance = 0, !.isRunning = FALSE]
    /\ gor' = [gor EXCEPT ![g].pc = "exit"]
    /\ Bg /\ UNCHANGED <<mh, ctxCancelled, applied, logs>>

\* the deferred function (lines 89-96)
V2Exit(g) ==
    /\ gor[g].kind = "v2ray" /\ gor[g].pc \in {"exit", "failed"}
    /\ v2' = [v2 EXCEPT !.isRunning = FALSE]
    /\ gor' = [gor EXCEPT ![g].pc = "done", ![g].ctx = 0, ![g].path = ""]
    /\ Bg /\ UNCHANGED <<mh, ctxCancelled, inst, applied, logs>>

\* ------------------------------------- MihomoCoreManager.runCoreAsync
\* config.UnmarshalRawConfig + config.ParseRawConfig (lines 253-263)
MhParse(g) ==
    /\ gor[g].kind = "mihomo" /\ gor[g].pc = "load"
    /\ gor' = [gor EXCEPT ![g].pc = IF Files[gor[g].path].engineOK THEN "apply" ELSE "failed"]
    /\ Bg /\ UNCHANGED <<v2, mh, ctxCancelled, inst, applied, logs>>

\* stopLogSubscription: mihomolog.UnSubscribe closes the channel of the
\* subscription that m.logSubscriber refers to
StopLogSubscription(l) ==
    IF l.subscriber # 0
    THEN [l EXCEPT !.subscriber = 0, !.closed = @ \cup {l.subscriber}]
    ELSE l

\* startLogSubscription called by goroutine g: the prior subscription is
\* stopped, a new one is stored in m.logSubscriber and the writer goroutine
\* is started (m.logFilePath was set by injectRequiredConfig)
StartLogSubscription(l, g) ==
    [StopLogSubscription(l) EXCEPT !.subscriber = g,
                                   !.writer[g] = [pc |-> "spawned", sub |-> 0]]

\* hub.ApplyConfig and startLogSubscription (lines 265-272): the
\* process-wide engine now serves this goroutine's configuration
MhApply(g) ==
    /\ gor[g].kind = "mihomo" /\ gor[g].pc = "apply"
    /\ applied' = g
    /\ logs' = StartLogSubscription(logs, g)
    /\ gor' = [gor EXCEPT ![g].pc = "wait"]
    /\ Bg /\ UNCHANGED <<v2, mh, ctxCancelled, inst>>

\* <-m.ctx.Done(): m.ctx is read when the receive is entered (line 275)
MhWait(g) ==
    /\ gor[g].kind = "mihomo" /\ gor[g].pc = "wait"
    /\ gor' = [gor EXCEPT ![g].pc = "blocked", ![g].ctx = mh.ctx]
    /\ Bg /\ UNCHANGED <<v2, mh, ctxCancelled, inst, applied, logs>>

\* the context is done: stopLogSubscription and executor.Shutdown, which
\* shuts the process-wide engine down whoever applied its configuration
MhShutdown(g) ==
    /\ gor[g].kind = "mihomo" /\ gor[g].pc = "blocked"
    /\ gor[g].ctx \in ctxCancelled
    /\ applied' = 0
    /\ logs' = StopLogSubscription(logs)
    /\ gor' = [gor EXCEPT ![g].pc = "exit"]
    /\ Bg /\ UNCHANGED <<v2, mh, ctxCancelled, inst>>

\* the deferred function (lines 244-251)
MhExit(g) ==
    /\ gor[g].kind = "mihomo" /\ gor[g].pc \in {"exit", "failed"}
    /\ mh' = [mh EXCEPT !.isRunning = FALSE]
    /\ gor' = [gor EXCEPT ![g].pc = "done", ![g].ctx = 0, ![g].path = ""]
    /\ Bg /\ UNCHANGED <<v2, ctxCancelled, inst, applied, logs>>

\* ------------------------- the log writer of startLogSubscription
Quiet ==
    /\ ret' = NoRet
    /\ UNCHANGED <<u, mu, call, calls, runs, tokCancelled, v2, mh, ctxCancelled, gor,
                   inst, applied, doc, reg>>

\* os.OpenFile (lines 341-348): on an error the writer returns, otherwise
\* it holds the log file open until it returns
LogOpen(g) ==
    /\ logs.writer[g].pc = "spawned"
    /\ \E err \in {"nil", "error"} :
          logs' = [logs EXCEPT !.writer[g].pc = IF err = "nil" THEN "open" ELSE "failed"]
    /\ Quiet

\* "for logData := range m.logSubscriber" (line 350): the field is read
\* when the loop is entered; a nil channel is 0
LogRange(g) ==
    /\ logs.writer[g].pc = "open"
    /\ logs' = [logs EXCEPT !.writer[g] = [pc |-> "range", sub |-> logs.subscriber]]
    /\ Quiet

\* the channel the loop ranges over has been closed: the loop ends and the
\* deferred logFile.Close runs (a nil channel is never closed)
LogClose(g) ==
    /\ logs.writer[g].pc = "range"
    /\ logs.writer[g].sub \in logs.closed
    /\ logs' = [logs EXCEPT !.writer[g] = [pc |-> "done", sub |-> 0]]
    /\ Quiet

\* ------------------ startV2RayCore / testV2RayConfig and the Mihomo twins
\* what a step of these functions leaves alone
RegistryOnly ==
    /\ ret' = NoRet
    /\ UNCHANGED <<u, call, runs, tokCancelled, v2, mh, ctxCancelled, gor, inst, applied,
                   doc, logs>>

\* "if globalV2RayManager == nil": RunConfig reaches the test holding the
\* lock of its own manager, TestConfig holding no lock (it releases the
\* read lock at line 337)
RegistryCheck(c) ==
    /\ reg.thread[c].pc = "idle" /\ calls < MaxCalls
    /\ \E m \in Mgrs, op \in {"RunConfig", "TestConfig"}, f \in Families :
          /\ mu[m] = 0
          /\ mu' = IF op = "RunConfig" THEN [mu EXCEPT ![m] = c] ELSE mu
          /\ reg' = [reg EXCEPT !.thread[c] =
                        [pc |-> "checked", op |-> op, m |-> m, family |-> f,
                         isNil |-> reg.global[f] = 0]]
    /\ calls' = calls + 1
    /\ RegistryOnly

\* the branch taken: NewV2RayCoreManager / NewMihomoCoreManager makes an
\* object and stores it in the package variable, or the object found is kept
RegistryStore(c) ==
    /\ reg.thread[c].pc = "checked"
    /\ LET f == reg.thread[c].family
       IN reg' = IF reg.thread[c].isNil
                 THEN [reg EXCEPT !.made[f] = @ + 1, !.global[f] = reg.made[f] + 1,
                                  !.thread[c].pc = "stored"]
                 ELSE [reg EXCEPT !.thread[c].pc = "stored"]
    /\ UNCHANGED <<mu, calls>>
    /\ RegistryOnly

\* "u.v2rayManager = globalV2RayManager; u.v2rayManager.RunConfig(...)" and
\* "globalV2RayManager.TestConfig(...)": the object the package variable
\* holds now is the one the call is made on
RegistryUse(c) ==
    /\ reg.thread[c].pc = "stored"
    /\ LET f == reg.thread[c].family
       IN reg' = [reg EXCEPT !.used[f] = @ \cup {reg.global[f]}, !.thread[c] = Waiting]
    /\ mu' = IF reg.thread[c].op = "RunConfig" THEN [mu EXCEPT ![reg.thread[c].m] = 0] ELSE mu
    /\ UNCHANGED calls
    /\ RegistryOnly

\* ------------------------------------------- UnifiedCoreManager helpers
\* stopV2RayCore / stopMihomoCore chosen by the switch on u.coreType
StopCore(um, v, m, cancelled, ins) ==
    IF um.coreType \in V2RayFamily /\ um.v2rayManager
    THEN LET r == V2RayStop(v, cancelled, ins)
         IN [v2 |-> r.v2, mh |-> m, cancelled |-> r.cancelled, inst |-> r.inst]
    ELSE IF um.coreType = CoreTypeMihomo /\ um.mihomoManager
    THEN LET r == MihomoStop(m, cancelled)
         IN [v2 |-> v, mh |-> r.mh, cancelled |-> r.cancelled, inst |-> ins]
    ELSE [v2 |-> v, mh |-> m, cancelled |-> cancelled, inst |-> ins]

\* the cancel function is invoked but the field is not cleared
CancelAndKeep(um) == um

\* if u.cancel != nil { u.cancel(); u.cancel = nil }
CancelAndClear(um) == [um EXCEPT !.cancel = 0]

\* the field is cleared without the cancel function being invoked
CancelledNever(um, toks) == toks

\* ... the manager contexts cancelled once u.cancel() has been invoked
Cancelled(um, toks) == IF um.cancel # 0 THEN toks \cup {um.cancel} ELSE toks

\* RunConfig lines 122-144: read, parse and detect
DetectError(f) ==
    IF ~f.readable THEN "failed to read config file"
    ELSE IF ~f.json THEN "failed to parse injected config as JSON"
    ELSE IF f.coreType.kind # "string" THEN "injected config missing required coreType field"
    ELSE IF ParseCoreType(f.coreType.chars).err THEN "invalid coreType in injected config"
    ELSE "nil"

\* mixed-port honoured only while the manager holds no SOCKS port
ConfigSocksPortIfUnset(f, old) ==
    IF f.mixed.kind = "number" /\ old = 0 THEN IntOfFloat(f.mixed.tenths) ELSE old

\* RunConfig lines 122-144 for each file: the error or "nil", and the
\* detected core type
Detected ==
    [p \in Paths |->
       [err |-> DetectError(Files[p]),
        type |-> IF DetectError(Files[p]) = "nil"
                 THEN ParseCoreType(Files[p].coreType.chars).type
                 ELSE CoreTypeInvalid]]

\* RunConfig lines 210-214: mixed-port
ConfigSocksPort(f, old) ==
    IF f.mixed.kind = "number" THEN IntOfFloat(f.mixed.tenths) ELSE old

\* RunConfig lines 216-229: the port parsed from external-controller, the
\* text after its last colon
ControllerPort(f) ==
    IF f.ctrl.kind # "string" THEN [ok |-> FALSE, val |-> 0]
    ELSE LET str == f.ctrl.chars
             colonIndex == LastColon(str, Len(str))
         IN IF colonIndex >= 0 /\ colonIndex < Len(str) - 1
            THEN Atoi(SubSeq(str, colonIndex + 2, Len(str)))
            ELSE [ok |-> FALSE, val |-> 0]

\* ... of each file
ControllerPorts == [f \in {Files[p] : p \in Paths} |-> ControllerPort(f)]

\* RunConfig lines 215-232: external-controller
ConfigAPIPort(f, old) ==
    IF ControllerPorts[f].ok THEN ControllerPorts[f].val ELSE old

\* RunConfig lines 235-240: 10000 + time.Now().Nanosecond()%50000
Nanos == {0, 49999}

\* the fallback without its base of 10000
FallbackFromZero(port, ns) == IF port = 0 THEN ns % 50000 ELSE port

Fallback(port, ns) == IF port = 0 THEN 10000 + (ns % 50000) ELSE port

\* a return of a host call: the method, the exported call it was made
\* from, the manager, the path argument, the error, whether the manager
\* was Running when the method took the lock, and the other arguments
Returned(op, via, m, path, err, wasRunning) ==
    [op |-> op, via |-> via, m |-> m, path |-> path, err |-> err, core |-> "",
     wasRunning |-> wasRunning, wasType |-> 0, arg |-> <<>>, cause |-> ""]

\* what the exported call a RunConfig was made from started with: the
\* argument of SwitchCoreType, the running flag Restart found
RunArg(via, newType, began) ==
    IF via = "SwitchCoreType" THEN <<newType>>
    ELSE IF via = "Restart" THEN <<began>>
    ELSE <<>>

\* lines 259-264: fmt.Errorf("failed to start %s core: %w", DisplayName, err)
StartError(um, err) ==
    IF err = "nil" THEN [err |-> "nil", core |-> "", cause |-> ""]
    ELSE [err |-> "failed to start core", core |-> DisplayName(um.coreType), cause |-> err]

\* a failed start that returns without cancelling its context
StartFailedNoCancel(toks, id, err) == toks

\* lines 259-262: the context of a failed start is cancelled
StartFailed(toks, id, err) == IF err = "nil" THEN toks ELSE toks \cup {id}

\* a return that leaves the manager lock held
UnlockNever(locks, m) == locks

\* defer u.mu.Unlock()
Unlock(locks, m) == [locks EXCEPT ![m] = 0]

\* a stop block that does not look at the running flag
StopsEngineAlways(um) == TRUE

\* "if u.running" / "if !u.running { return nil }" ahead of every call of
\* stopV2RayCore / stopMihomoCore (RunConfig lines 147 and 180, Stop line 275)
StopsEngine(um) == um.running

\* the host enters an exported method from an idle thread
NewCall(c) ==
    /\ call[c].pc = "idle"
    /\ calls < MaxCalls
    /\ calls' = calls + 1
    /\ UNCHANGED <<doc, logs, reg>>

\* ------------------------------------------ UnifiedCoreManager.RunConfig
\* lines 113-207: take the lock, store the path, read/parse/detect, and
\* stop the running core (either stop block; at most one of them runs)
RunConfigEnter(c, m, configPath, via) ==
    LET um == [u[m] EXCEPT !.configPath = configPath]
        err == Detected[configPath].err
    IN /\ mu[m] = 0
       /\ IF err # "nil"
          THEN /\ u' = [u EXCEPT ![m] = um]
               /\ call' = [call EXCEPT ![c] = Idle]
               /\ ret' = [Returned("RunConfig", via, m, configPath, err, u[m].running)
                            EXCEPT !.arg = RunArg(via, call[c].newType, call[c].began),
                                   !.wasType = u[m].coreType]
               /\ UNCHANGED <<mu, tokCancelled, v2, mh, ctxCancelled, inst>>
          ELSE LET detectedCoreType == Detected[configPath].type
                   r == StopCore(um, v2, mh, ctxCancelled, inst)
               IN /\ IF StopsEngine(um)
                     THEN /\ u' = [u EXCEPT ![m] =
                                     [CancelAndClear(um) EXCEPT !.running = FALSE,
                                                                !.coreType = detectedCoreType]]
                          /\ tokCancelled' = Cancelled(um, tokCancelled)
                          /\ v2' = r.v2 /\ mh' = r.mh
                          /\ ctxCancelled' = r.cancelled /\ inst' = r.inst
                     ELSE /\ u' = [u EXCEPT ![m] = [um EXCEPT !.coreType = detectedCoreType]]
                          /\ UNCHANGED <<tokCancelled, v2, mh, ctxCancelled, inst>>
                  /\ mu' = [mu EXCEPT ![m] = c]
                  /\ call' = [call EXCEPT ![c] =
                                [Idle EXCEPT !.pc = "run_start", !.op = via, !.m = m,
                                             !.path = configPath,
                                             !.newType = call[c].newType,
                                             !.began = call[c].began,
                                             !.wasRunning = u[m].running,
                                             !.wasType = u[m].coreType]]
                  /\ ret' = NoRet
       /\ UNCHANGED <<runs, gor, applied>>

\* lines 209-269: resolve the ports, create the context, start the adapter
\* (startV2RayCore / startMihomoCore), release the lock
RunConfigStart(c) ==
    /\ UNCHANGED <<calls, doc, logs, reg>>
    /\ call[c].pc = "run_start"
    /\ LET m == call[c].m
           configPath == call[c].path
           f == Files[configPath]
           id == runs + 1
       IN \E envOK \in BOOLEAN,
             socksPort \in {Fallback(ConfigSocksPort(f, u[m].socksPort), ns) : ns \in Nanos},
             apiPort \in {Fallback(ConfigAPIPort(f, u[m].apiPort), ns) : ns \in Nanos} :
          LET um == [u[m] EXCEPT !.socksPort = socksPort, !.apiPort = apiPort, !.cancel = id]
              isV2 == um.coreType \in V2RayFamily
              isMh == um.coreType = CoreTypeMihomo
              rv == V2RayRunConfig(IF v2.exists THEN v2 ELSE NewV2RayCoreManager, id)
              rm == MihomoRunConfig(IF mh.exists THEN mh ELSE NewMihomoCoreManager, id, envOK, f)
              err == IF isV2 THEN rv.err ELSE IF isMh THEN rm.err ELSE "unsupported core type"
              spawn == IF isV2 THEN rv.spawn ELSE IF isMh THEN rm.spawn ELSE FALSE
              e == StartError(um, err)
          IN /\ runs' = id
             /\ v2' = IF isV2 THEN rv.v2 ELSE v2
             /\ mh' = IF isMh THEN rm.mh ELSE mh
             /\ gor' = IF spawn
                       THEN [gor EXCEPT ![id] = [kind |-> IF isV2 THEN "v2ray" ELSE "mihomo",
                                                 pc |-> "load", path |-> configPath, ctx |-> 0]]
                       ELSE gor
             /\ u' = [u EXCEPT ![m] =
                        [um EXCEPT !.v2rayManager = IF isV2 THEN TRUE ELSE @,
                                   !.mihomoManager = IF isMh THEN TRUE ELSE @,
                                   !.running = IF err = "nil" THEN TRUE ELSE @]]
             /\ tokCancelled' = IF isV2 \/ isMh THEN StartFailed(tokCancelled, id, err)
                                ELSE tokCancelled
             /\ ret' = [Returned("RunConfig", call[c].op, m, configPath,
                                 IF isV2 \/ isMh THEN e.err ELSE err, call[c].wasRunning)
                          EXCEPT !.core = IF isV2 \/ isMh THEN e.core ELSE "",
                                 !.cause = IF isV2 \/ isMh THEN e.cause ELSE "",
                                 !.arg = RunArg(call[c].op, call[c].newType, call[c].began),
                                 !.wasType = call[c].wasType]
             /\ mu' = Unlock(mu, m)
             /\ call' = [call EXCEPT ![c] = Idle]
    /\ UNCHANGED <<ctxCancelled, inst, applied>>

RunConfig(c) ==
    /\ NewCall(c)
    /\ \E m \in Mgrs, configPath \in Paths : RunConfigEnter(c, m, configPath, "RunConfig")

\* ----------------------------------------------- UnifiedCoreManager.Stop
\* lines 271-304, the whole call (the lock is held throughout)
\* Stop without the early return on a manager that is not running
StopManagerAlways(um) ==
    [CancelAndClear(um) EXCEPT !.running = FALSE, !.configPath = ""]

StopManager(um) ==
    IF ~um.running THEN um
    ELSE [CancelAndClear(um) EXCEPT !.running = FALSE, !.configPath = ""]

StopBody(m) ==
    LET r == StopCore(u[m], v2, mh, ctxCancelled, inst)
    IN /\ mu[m] = 0
       /\ u' = [u EXCEPT ![m] = StopManager(u[m])]
       /\ IF ~StopsEngine(u[m])
          THEN UNCHANGED <<tokCancelled, v2, mh, ctxCancelled, inst>>
          ELSE /\ tokCancelled' = Cancelled(u[m], tokCancelled)
               /\ v2' = r.v2 /\ mh' = r.mh
               /\ ctxCancelled' = r.cancelled /\ inst' = r.inst
       /\ UNCHANGED <<mu, runs, gor, applied>>

Stop(c) ==
    /\ NewCall(c)
    /\ \E m \in Mgrs :
         /\ StopBody(m)
         /\ ret' = Returned("Stop", "Stop", m, "", "nil", u[m].running)
    /\ UNCHANGED call

\* ------------------------------------------ UnifiedCoreManager.TestConfig
\* V2RayCoreManager.TestConfig
V2RayTestConfig(f) == V2RayLoadError(f)

\* MihomoCoreManager.TestConfig; envOK is the outcome of setupEnvironment
MihomoTestConfig(f, envOK) ==
    IF ~envOK THEN "failed to setup environment"
    ELSE IF MihomoPrepareError(f) # "nil" THEN "failed to prepare config"
    ELSE IF ~f.engineOK THEN "invalid Mihomo configuration"
    ELSE "nil"

\* a TestConfig that goes on to mark the adapter running, as RunConfig does
V2RayTestedAsRun(v) == [v EXCEPT !.isRunning = TRUE]

\* the adapter fields after V2RayCoreManager.TestConfig (src/v2ray_core.go
\* lines 203-218 assign none of them)
V2RayTested(v) == v

\* the adapter fields after MihomoCoreManager.TestConfig (src/mihomo_core.go
\* lines 308-325 assign none of them)
MihomoTested(m) == m

\* TestConfig storing the path it was given, as RunConfig does
TestConfigStoresPath(um, configPath) == [um EXCEPT !.configPath = configPath]

\* the manager fields after TestConfig (lines 334-347 assign none of them)
TestConfigManager(um, configPath) == um

\* lines 334-347 with testV2RayConfig / testMihomoConfig.  The core type is
\* read under the read lock; what follows runs without the manager lock and
\* touches only the adapter global (created when nil), which no goroutine
\* reads, so the call is one step.
TestConfig(c) ==
    /\ NewCall(c)
    /\ \E m \in Mgrs, configPath \in Paths, envOK \in BOOLEAN :
         LET f == Files[configPath]
             coreType == u[m].coreType
         IN /\ mu[m] = 0
            /\ u' = [u EXCEPT ![m] = TestConfigManager(u[m], configPath)]
            /\ IF coreType \in V2RayFamily
               THEN /\ v2' = V2RayTested(IF v2.exists THEN v2 ELSE NewV2RayCoreManager)
                    /\ UNCHANGED mh
                    /\ ret' = Returned("TestConfig", "TestConfig", m, "",
                                       V2RayTestConfig(f), u[m].running)
               ELSE /\ mh' = MihomoTested(IF mh.exists THEN mh ELSE NewMihomoCoreManager)
                    /\ UNCHANGED v2
                    /\ ret' = Returned("TestConfig", "TestConfig", m, "",
                                       IF coreType = CoreTypeMihomo
                                       THEN MihomoTestConfig(f, envOK)
                                       ELSE "unsupported core type for testing",
                                       u[m].running)
    /\ UNCHANGED <<mu, call, runs, tokCancelled, ctxCancelled, gor, inst, applied>>

\* ------------------------------------------------------------- setters
\* setCoreType (lines 42-59); the error, or "nil"
SetCoreTypeError(um, coreType) ==
    IF um.running THEN "cannot change core type while running"
    ELSE IF ~IsValid(coreType) THEN "invalid core type"
    ELSE "nil"

TypeStrings == {<<"x", "r", "a", "y">>, <<"V", "2", "r", "a", "y", " ">>,
                <<"C", "L", "A", "S", "H">>, <<"x", " ", "r", "a", "y">>,
                <<"\t", "M", "I", "H", "O", "M", "O", "\n">>,
                <<"c", "l", "a", "s", "h", "-", "M", "e", "t", "a">>, <<>>}

\* ParseCoreType of each name the host passes
ParsedTypes == [str \in TypeStrings |-> ParseCoreType(str)]

\* SetCoreType / SetCoreTypeFromString (lines 61-75)
SetCoreType(c) ==
    /\ NewCall(c)
    /\ \E m \in Mgrs, coreTypeStr \in TypeStrings :
         LET parsed == ParsedTypes[coreTypeStr]
             err == IF parsed.err THEN "failed to parse core type"
                    ELSE SetCoreTypeError(u[m], parsed.type)
         IN /\ mu[m] = 0
            /\ u' = IF err = "nil" THEN [u EXCEPT ![m].coreType = parsed.type] ELSE u
            /\ ret' = [Returned("SetCoreType", "SetCoreType", m, "", err, u[m].running)
                         EXCEPT !.arg = coreTypeStr]
    /\ UNCHANGED <<mu, call, runs, tokCancelled, v2, mh, ctxCancelled, gor, inst, applied>>

\* SetPorts without the check of the running flag
SetPortsErrorUnguarded(um, socksPort, apiPort) ==
    IF socksPort <= 0 \/ socksPort > 65535 THEN "invalid SOCKS port"
    ELSE IF apiPort <= 0 \/ apiPort > 65535 THEN "invalid API port"
    ELSE "nil"

\* SetPorts (lines 78-99); the error, or "nil"
SetPortsError(um, socksPort, apiPort) ==
    IF um.running THEN "cannot change ports while running"
    ELSE IF socksPort <= 0 \/ socksPort > 65535 THEN "invalid SOCKS port"
    ELSE IF apiPort <= 0 \/ apiPort > 65535 THEN "invalid API port"
    ELSE "nil"

PortInputs == {0, 1080, 65536}

SetPorts(c) ==
    /\ NewCall(c)
    /\ \E m \in Mgrs, socksPort \in PortInputs, apiPort \in PortInputs :
         LET err == SetPortsError(u[m], socksPort, apiPort)
         IN /\ mu[m] = 0
            /\ u' = IF err = "nil"
                    THEN [u EXCEPT ![m].socksPort = socksPort, ![m].apiPort = apiPort]
                    ELSE u
            /\ ret' = [Returned("SetPorts", "SetPorts", m, "", err, u[m].running)
                         EXCEPT !.arg = <<socksPort, apiPort>>]
    /\ UNCHANGED <<mu, call, runs, tokCancelled, v2, mh, ctxCancelled, gor, inst, applied>>

\* ------------------------------------------- UnifiedCoreManager.Restart
\* lines 350-356: read the stored path under the read lock
RestartBegin(c) ==
    /\ NewCall(c)
    /\ \E m \in Mgrs :
         /\ mu[m] = 0
         /\ IF u[m].configPath = ""
            THEN /\ ret' = Returned("Restart", "Restart", m, "", "no configuration path set", u[m].running)
                 /\ UNCHANGED call
            ELSE /\ ret' = NoRet
                 /\ call' = [call EXCEPT ![c] = [Idle EXCEPT !.pc = "rs_stop", !.op = "Restart",
                                                             !.m = m, !.path = u[m].configPath,
                                                             !.began = u[m].running]]
    /\ UNCHANGED <<u, mu, runs, tokCancelled, v2, mh, ctxCancelled, gor, inst, applied>>

\* line 358: u.Stop()
RestartStop(c) ==
    /\ UNCHANGED <<calls, doc, logs, reg>>
    /\ call[c].pc = "rs_stop"
    /\ StopBody(call[c].m)
    /\ ret' = Returned("Stop", "Restart", call[c].m, "", "nil", u[call[c].m].running)
    /\ call' = [call EXCEPT ![c].pc = "rs_run"]

\* line 364: u.RunConfig(configPath)
RestartRun(c) ==
    /\ UNCHANGED <<calls, doc, logs, reg>>
    /\ call[c].pc = "rs_run"
    /\ RunConfigEnter(c, call[c].m, call[c].path, "Restart")

\* ------------------------------------ UnifiedCoreManager.SwitchCoreType
CoreTypeInputs == {CoreTypeV2Ray, CoreTypeXray, CoreTypeMihomo, CoreTypeInvalid}

\* lines 368-371: read running and the stored path under the read lock
SwitchBegin(c) ==
    /\ NewCall(c)
    /\ \E m \in Mgrs, newCoreType \in CoreTypeInputs :
         /\ mu[m] = 0
         /\ call' = [call EXCEPT ![c] =
                       [Idle EXCEPT !.pc = IF u[m].running THEN "sw_stop" ELSE "sw_set",
                                    !.op = "SwitchCoreType", !.m = m,
                                    !.path = u[m].configPath, !.newType = newCoreType,
                                    !.wasRunning = u[m].running]]
    /\ ret' = NoRet
    /\ UNCHANGED <<u, mu, runs, tokCancelled, v2, mh, ctxCancelled, gor, inst, applied>>

\* lines 373-377: u.Stop()
SwitchStop(c) ==
    /\ UNCHANGED <<calls, doc, logs, reg>>
    /\ call[c].pc = "sw_stop"
    /\ StopBody(call[c].m)
    /\ ret' = Returned("Stop", "SwitchCoreType", call[c].m, "", "nil", u[call[c].m].running)
    /\ call' = [call EXCEPT ![c].pc = "sw_set"]

\* lines 379-389: u.setCoreType(newCoreType), then return or go on to RunConfig
SwitchSet(c) ==
    /\ UNCHANGED <<calls, doc, logs, reg>>
    /\ call[c].pc = "sw_set"
    /\ LET m == call[c].m
           err == SetCoreTypeError(u[m], call[c].newType)
           again == call[c].wasRunning /\ call[c].path # ""
       IN /\ mu[m] = 0
          /\ u' = IF err = "nil" THEN [u EXCEPT ![m].coreType = call[c].newType] ELSE u
          /\ IF err = "nil" /\ again
             THEN /\ call' = [call EXCEPT ![c].pc = "sw_run"]
                  /\ ret' = NoRet
             ELSE /\ call' = [call EXCEPT ![c] = Idle]
                  /\ ret' = [Returned("SwitchCoreType", "SwitchCoreType", m, call[c].path,
                                      IF err = "nil" THEN "nil" ELSE "failed to set new core type",
                                      call[c].wasRunning)
                               EXCEPT !.arg = <<call[c].newType>>]
    /\ UNCHANGED <<mu, runs, tokCancelled, v2, mh, ctxCancelled, gor, inst, applied>>

\* line 384: u.RunConfig(configPath)
SwitchRun(c) ==
    /\ UNCHANGED <<calls, doc, logs, reg>>
    /\ call[c].pc = "sw_run"
    /\ RunConfigEnter(c, call[c].m, call[c].path, "SwitchCoreType")

\* ------------------------------------------------------------ readers
\* V2RayCoreManager.IsRunning / MihomoCoreManager.IsRunning
V2RayIsRunning(v) == v.isRunning /\ v.instance # 0
MihomoIsRunning(m) == m.isRunning

\* UnifiedCoreManager.IsRunning (lines 306-310), under the read lock
IsRunning(c) ==
    /\ NewCall(c)
    /\ \E m \in Mgrs :
         /\ mu[m] = 0
         /\ ret' = Returned("IsRunning", "IsRunning", m, "", "nil", u[m].running)
    /\ UNCHANGED <<u, mu, call, runs, tokCancelled, v2, mh, ctxCancelled, gor, inst, applied>>

\* UnifiedCoreManager.GetStats (lines 392-418), under the read lock: the
\* manager's fields and the IsRunning of the adapter of the current type
GetStats(c) ==
    /\ NewCall(c)
    /\ \E m \in Mgrs :
         /\ mu[m] = 0
         /\ ret' = [Returned("GetStats", "GetStats", m, u[m].configPath, "nil", u[m].running)
                      EXCEPT !.wasType = u[m].coreType,
                             !.arg = IF u[m].coreType \in V2RayFamily /\ u[m].v2rayManager
                                     THEN <<"v2ray_running", V2RayIsRunning(v2)>>
                                     ELSE IF u[m].coreType = CoreTypeMihomo /\ u[m].mihomoManager
                                     THEN <<"mihomo_running", MihomoIsRunning(mh)>>
                                     ELSE <<>>]
    /\ UNCHANGED <<u, mu, call, runs, tokCancelled, v2, mh, ctxCancelled, gor, inst, applied>>

\* ---------------------------------------------------------- behaviours
Background ==
    \E g \in RunIds :
       \/ V2Load(g) \/ V2Check(g) \/ V2New(g) \/ V2Start(g) \/ V2Wait(g)
       \/ V2Select(g) \/ V2Cleanup(g) \/ V2Exit(g)
       \/ MhParse(g) \/ MhApply(g) \/ MhWait(g) \/ MhShutdown(g) \/ MhExit(g)

Host ==
    \E c \in Callers :
       \/ RunConfig(c) \/ RunConfigStart(c) \/ Stop(c)
       \/ TestConfig(c)
       \/ SetCoreType(c) \/ SetPorts(c)
       \/ RestartBegin(c) \/ RestartStop(c) \/ RestartRun(c)
       \/ SwitchBegin(c) \/ SwitchStop(c) \/ SwitchSet(c) \/ SwitchRun(c)

Next == Host \/ Background

Spec == Init /\ [][Next]_vars

\* RunConfig is the only host call: every change of engine is RunConfig's
\* own stop-then-start transition
NextRun == (\E c \in Callers : RunConfig(c) \/ RunConfigStart(c)) \/ Background

SpecRun == Init /\ [][NextRun]_vars

\* two host threads calling the state-changing operations of one manager
InitPair == InitWith({1}, {1, 2})

NextPair ==
    \/ \E c \in Callers :
          \/ RunConfig(c) \/ RunConfigStart(c) \/ Stop(c)
          \/ SetCoreType(c) \/ SetPorts(c)
          \/ RestartBegin(c) \/ RestartStop(c) \/ RestartRun(c)
          \/ SwitchBegin(c) \/ SwitchStop(c) \/ SwitchSet(c) \/ SwitchRun(c)
    \/ Background

SpecPair == InitPair /\ [][NextPair]_vars

\* two host threads calling every blocking operation of one manager, each
\* thread and each goroutine scheduled fairly; the configurations started
\* are one of each engine family and one that cannot be parsed
LivePaths == {"x.json", "m.json", "bad.json"}

RunConfigLive(c) ==
    /\ NewCall(c)
    /\ \E m \in Mgrs, configPath \in LivePaths : RunConfigEnter(c, m, configPath, "RunConfig")

\* the steps that complete a call in progress
Continue(c) ==
    \/ RunConfigStart(c)
    \/ RestartStop(c) \/ RestartRun(c)
    \/ SwitchStop(c) \/ SwitchSet(c) \/ SwitchRun(c)

NextLive ==
    \/ \E c \in Callers :
          \/ RunConfigLive(c) \/ Stop(c) \/ TestConfig(c)
          \/ RestartBegin(c) \/ SwitchBegin(c)
          \/ IsRunning(c) \/ GetStats(c)
          \/ Continue(c)
    \/ Background

\* ------------------------------------- detection and wrapper documents
\* isV2RayConfig: at least 2 of the V2Ray/Xray fields are top-level keys
V2RayFields == {"inbounds", "outbounds", "routing", "log", "api", "dns", "policy"}
IsV2RayConfig(keys) == Cardinality(keys \cap V2RayFields) >= 2

\* isMihomoConfig: at least 3 of the Mihomo/Clash fields are top-level keys
MihomoFields ==
    {"mixed-port", "port", "socks-port", "redir-port", "tproxy-port",
     "external-controller", "secret", "bind-address",
     "proxy-groups", "proxies", "rules", "rule-providers",
     "mode", "log-level", "ipv6", "allow-lan"}
IsMihomoConfig(keys) == Cardinality(keys \cap MihomoFields) >= 3

\* DetectCoreTypeFromConfig.  A text is described by its format ("json": it
\* starts with "{" and is a JSON object, "badjson": it starts with "{" and
\* is not JSON, "yaml": a block-style YAML mapping), its top-level keys and
\* whether an outbound has an Xray protocol (isXrayConfig).  A text that
\* starts with "{" goes to detectJSONCoreType; in a YAML mapping a key k
\* is written "k:", which is what strings.Contains looks for, and
\* json.Unmarshal of a YAML mapping fails.
DetectCoreTypeFromConfig(c) ==
    IF c.format = "badjson" THEN [type |-> CoreTypeInvalid, err |-> "invalid JSON configuration"]
    ELSE IF c.format = "json"
    THEN IF IsV2RayConfig(c.keys)
         THEN [type |-> IF "outbounds" \in c.keys /\ c.xray THEN CoreTypeXray
                        ELSE CoreTypeV2Ray,
               err |-> "nil"]
         ELSE IF IsMihomoConfig(c.keys) THEN [type |-> CoreTypeMihomo, err |-> "nil"]
         ELSE [type |-> CoreTypeInvalid, err |-> "unrecognized JSON configuration format"]
    ELSE IF c.keys \cap {"mixed-port", "external-controller", "proxy-groups"} # {}
    THEN [type |-> CoreTypeMihomo, err |-> "nil"]
    ELSE IF IsMihomoConfig(c.keys) THEN [type |-> CoreTypeMihomo, err |-> "nil"]
    ELSE [type |-> CoreTypeInvalid,
          err |-> "unable to detect core type from configuration"]

\* V2RayCoreManager.readAndInjectConfig: a file is described by whether it
\* can be read, whether it is a JSON object and the value of its coreConfig
\* key; the result names the document that is marshalled
ReadAndInjectConfig(f) ==
    IF ~f.readable THEN [err |-> "failed to read config file", config |-> "none"]
    ELSE IF ~f.json THEN [err |-> "failed to parse config JSON", config |-> "none"]
    ELSE IF f.coreConfig = Absent THEN [err |-> "nil", config |-> "whole"]
    ELSE IF f.coreConfig.kind = "map" THEN [err |-> "nil", config |-> f.coreConfig.entries]
    ELSE [err |-> "invalid coreConfig format in wrapper", config |-> "none"]

\* the texts handed to detection and the files handed to the V2Ray adapter
InitConfig ==
    /\ Lifecycle({1}, {})
    /\ doc \in [family : {"detect"}, format : {"json", "badjson", "yaml"},
                keys : SUBSET {"inbounds", "outbounds", "log", "mixed-port", "proxies",
                               "rules", "mode"},
                xray : BOOLEAN, hist : {<<>>}]
            \cup [family : {"wrapper"}, readable : BOOLEAN, json : BOOLEAN,
                  coreConfig : {Absent, Map("embedded"), Value(7),
                                [kind |-> "string", parses |-> "nested"],
                                [kind |-> "string", parses |-> "none"]},
                  hist : {<<>>}]

Detect ==
    /\ doc.family = "detect" /\ doc.hist = <<>>
    /\ doc' = [doc EXCEPT !.hist = <<DetectCoreTypeFromConfig(doc)>>]
    /\ UNCHANGED <<u, mu, call, ret, calls, runs, tokCancelled, v2, mh, ctxCancelled,
                   gor, inst, applied, logs, reg>>

ReadAndInject ==
    /\ doc.family = "wrapper" /\ doc.hist = <<>>
    /\ doc' = [doc EXCEPT !.hist = <<ReadAndInjectConfig(doc)>>]
    /\ UNCHANGED <<u, mu, call, ret, calls, runs, tokCancelled, v2, mh, ctxCancelled,
                   gor, inst, applied, logs, reg>>

NextConfig == Detect \/ ReadAndInject

SpecConfig == InitConfig /\ [][NextConfig]_vars

\* the threads of the host call RunConfig and TestConfig on two managers
NextRegistry ==
    \E c \in Callers : RegistryCheck(c) \/ RegistryStore(c) \/ RegistryUse(c)

SpecRegistry == InitWith({1, 2}, {}) /\ [][NextRegistry]_vars

\* the host runs and stops configurations while the log writers run
NextLog ==
    \/ \E c \in Callers : RunConfigLive(c) \/ RunConfigStart(c) \/ Stop(c)
    \/ Background
    \/ \E g \in RunIds : LogOpen(g) \/ LogRange(g) \/ LogClose(g)

\* a manager whose ports the host has set with SetPorts(1080, 9090)
InitLive ==
    /\ doc = NoDoc
    /\ u = [m \in {1} |-> [NewUnifiedCoreManager EXCEPT !.socksPort = 1080, !.apiPort = 9090]]
    /\ Threads({1}, {1, 2})

InitLog ==
    /\ doc = NoDoc
    /\ u = [m \in {1} |-> [NewUnifiedCoreManager EXCEPT !.socksPort = 1080, !.apiPort = 9090]]
    /\ Threads({1}, {1})

SpecLog == InitLog /\ [][NextLog]_vars

SpecLive ==
    /\ InitLive /\ [][NextLive]_vars
    /\ \A c \in Callers : WF_vars(Continue(c))
    /\ WF_vars(Background)

\* two manager objects in one process, sharing the adapter globals; each
\* host thread may call either manager
InitMulti ==
    /\ doc = NoDoc
    /\ u = [m \in {1, 2} |->
              [NewUnifiedCoreManager EXCEPT !.socksPort = 1080, !.apiPort = 9090]]
    /\ Threads({1, 2}, {1, 2})

NextMulti ==
    \/ \E c \in Callers :
          \/ RunConfigLive(c) \/ Stop(c)
          \/ RestartBegin(c) \/ SwitchBegin(c)
          \/ Continue(c)
    \/ Background

SpecMulti == InitMulti /\ [][NextMulti]_vars

\* -------------------------------------------- config injection, applied
\* the entries of the documents the host supplies
UserInbound == [tag |-> "http-in", port |-> 8080, listen |-> "0.0.0.0", protocol |-> "http"]
UserRule == [type |-> "field", inboundTag |-> "http-in", outboundTag |-> "proxy"]
UserOutbound == [tag |-> "proxy", protocol |-> "vmess"]
UserSystem == [statsInboundUplink |-> FALSE, statsInboundDownlink |-> FALSE]

\* the V2Ray documents the host supplies
V2RayDocs ==
    {[key \in V2RayKeys |->
        CASE key = "inbounds" -> inbounds
          [] key = "api" -> api
          [] key = "stats" -> Absent
          [] key = "policy" -> policy
          [] key = "routing" -> routing
          [] key = "outbounds" -> outbounds] :
       inbounds \in {Absent, List(<<UserInbound>>)},
       api \in {Absent, Map([tag |-> "user-api"])},
       policy \in {Absent, Other, Map([system |-> Absent]), Map([system |-> Other]),
                   Map([system |-> Map(UserSystem)])},
       routing \in {Absent, Other, Map([rules |-> Absent]), Map([rules |-> Other]),
                    Map([rules |-> List(<<UserRule>>)])},
       outbounds \in {Absent, List(<<UserOutbound>>)}}

\* the value the host gives a key of a Mihomo document
MihomoUser(key) ==
    CASE key = "mixed-port" -> Value(7777)
      [] key = "bind-address" -> Value("*")
      [] key = "external-controller" -> Value(<<"0.0.0.0", 9999>>)
      [] key = "allow-lan" -> Value(TRUE)
      [] key = "log-level" -> Value("debug")
      [] key = "mode" -> Value("global")
      [] key = "proxies" -> List(<<"ss-1">>)
      [] key = "proxy-groups" -> List(<<"auto">>)
      [] key = "rules" -> List(<<"GEOIP,CN,DIRECT">>)
      [] key = "dns" -> Map([listen |-> "0.0.0.0:53"])
      [] key = "log-file" -> Value(<<"tmp", "my.log">>)

\* the Mihomo documents the host supplies
MihomoDocs ==
    {[key \in MihomoKeys |->
        IF key = "log-file" THEN logFile
        ELSE IF key \in MihomoControlKeys
        THEN (IF control THEN MihomoUser(key) ELSE Absent)
        ELSE (IF key \in defaults THEN MihomoUser(key) ELSE Absent)] :
       control \in BOOLEAN,
       defaults \in SUBSET MihomoDefaultKeys,
       logFile \in {Absent, Other, MihomoUser("log-file")}}

\* the adapter fields the injectors read: socksPort, apiPort, logLevel,
\* assetPath, configDir
InjectParams ==
    [socksPort : {1080}, apiPort : {9090}, logLevel : {"info"},
     assetPath : {<<>>, <<"assets">>}, configDir : {<<>>, <<"conf">>}]

\* a document handed to an injector: hist[1] is the document as supplied,
\* the last element of hist the document after the injections so far
InitInject ==
    /\ Lifecycle({1}, {})
    /\ doc \in [family : {"v2ray"}, params : InjectParams, hist : {<<d>> : d \in V2RayDocs}]
            \cup [family : {"mihomo"}, params : InjectParams,
                  hist : {<<d>> : d \in MihomoDocs}]

Current == doc.hist[Len(doc.hist)]

\* readAndInjectConfig applies injectRequiredConfig (V2Ray)
V2RayInject ==
    /\ doc.family = "v2ray" /\ Len(doc.hist) <= MaxInject
    /\ doc' = [doc EXCEPT !.hist = Append(@, V2RayInjectRequiredConfig(Current, doc.params))]
    /\ UNCHANGED <<u, mu, call, ret, calls, runs, tokCancelled, v2, mh, ctxCancelled,
                   gor, inst, applied, logs, reg>>

\* prepareConfigBytes applies injectRequiredConfig (Mihomo)
MihomoInject ==
    /\ doc.family = "mihomo" /\ Len(doc.hist) <= MaxInject
    /\ doc' = [doc EXCEPT !.hist = Append(@, MihomoInjectRequiredConfig(Current, doc.params))]
    /\ UNCHANGED <<u, mu, call, ret, calls, runs, tokCancelled, v2, mh, ctxCancelled,
                   gor, inst, applied, logs, reg>>

NextInject == V2RayInject \/ MihomoInject

SpecInject == InitInject /\ [][NextInject]_vars

\* ------------------------------------------------------------ properties
\* started xray instances that have not been closed
V2RayActive == {g \in RunIds : inst[g] = "started"}
\* the Mihomo engine serves an applied configuration
MihomoActive == applied # 0
ActiveEngines == Cardinality(V2RayActive) + (IF MihomoActive THEN 1 ELSE 0)

\* C1: at most one engine instance (a started xray instance or an applied
\* Mihomo configuration) is active at any time.
C1_AtMostOneActive == ActiveEngines <= 1

\* C2: when RunConfig moves a Running manager to a configuration of another
\* type, the old engine is stopped before the new one starts: an instance
\* of the V2Ray/Xray family and the Mihomo engine are never both active.
C2_OldStoppedBeforeNew == ~(V2RayActive # {} /\ MihomoActive)

\* the core type each configuration file names in its coreType field
DeclaredType(path) ==
    CASE path = "x.json" -> CoreTypeXray
      [] path = "m.json" -> CoreTypeMihomo
      [] path = "v.json" -> CoreTypeV2Ray
      [] path = "c.json" -> CoreTypeMihomo
      [] OTHER -> CoreTypeInvalid

\* C3: whenever RunConfig returns nil the manager is running and its core
\* type is the one the configuration's coreType field names.
C3_RunConfigNilMeansRunning ==
    (ret.op = "RunConfig" /\ ret.err = "nil") =>
        /\ u[ret.m].running
        /\ u[ret.m].coreType = DeclaredType(ret.path)

C3_Witness ==
    /\ ret.op = "RunConfig" /\ ret.err = "nil" /\ ret.wasRunning
    /\ ret.path = "m.json" /\ u[ret.m].coreType = CoreTypeMihomo

\* C4: whenever Stop returns on a manager that was Running, the manager is
\* Stopped: not running, empty config path, cancel function invoked and
\* cleared, and the adapter of its type no longer refuses a RunConfig.
C4_StopLeavesStopped ==
    (ret.op = "Stop" /\ ret.wasRunning) =>
        /\ ~u[ret.m].running
        /\ u[ret.m].configPath = ""
        /\ u[ret.m].cancel = 0
        /\ \A t \in 1..runs : t \in tokCancelled
        /\ u[ret.m].coreType \in V2RayFamily => ~v2.isRunning
        /\ u[ret.m].coreType = CoreTypeMihomo => ~mh.isRunning

C4_Witness == ret.op = "Stop" /\ ret.wasRunning /\ ret.err = "nil" /\ runs > 0

\* C5: once adapter Stop has returned, the stopped instance holds no
\* listener and its goroutine never starts or binds an instance afterwards.
C5_StoppedHoldsNothing ==
    \A g \in RunIds : g \in ctxCancelled => (inst[g] # "started" /\ applied # g)

\* C6: Stop on a Stopped manager returns nil, calls no adapter and changes
\* no manager field.
C6_StopOnStoppedIsNoOp ==
    [][\A m \in Mgrs :
         (ret'.op = "Stop" /\ ret'.m = m /\ ~u[m].running) =>
             /\ ret'.err = "nil"
             /\ UNCHANGED <<u, tokCancelled, v2, mh, ctxCancelled, gor, inst, applied>>]_vars

\* a second Stop right after a first one
C6_Witness ==
    /\ ret.op = "Stop" /\ ~ret.wasRunning /\ ret.err = "nil"
    /\ runs > 0 /\ u[ret.m].cancel = 0 /\ u[ret.m].configPath = ""

\* C7: TestConfig never mutates manager state and starts or stops no engine
\* instance, whatever its outcome.
C7_TestConfigFrame ==
    [][ret'.op = "TestConfig" =>
          /\ UNCHANGED <<u, tokCancelled, ctxCancelled, gor, inst, applied>>
          /\ v2'.isRunning = v2.isRunning /\ v2'.instance = v2.instance /\ v2'.ctx = v2.ctx
          /\ mh'.isRunning = mh.isRunning /\ mh'.ctx = mh.ctx]_vars

C7_Witness == ret.op = "TestConfig" /\ ret.wasRunning /\ ret.err # "nil"

C7_WitnessOk == ret.op = "TestConfig" /\ ret.err = "nil" /\ mh.exists /\ ~u[ret.m].mihomoManager

\* the configurations that cannot be read, are not JSON, lack a string
\* coreType or name an unknown core type
Undetectable == {"gone.json", "bad.json", "nokey.json", "unk.json"}

\* C8: RunConfig on a Stopped manager with such a configuration returns an
\* error, leaves the manager Stopped and calls neither adapter's RunConfig.
C8_BadConfigOnStopped ==
    [][\A m \in Mgrs :
         (ret'.op = "RunConfig" /\ ret'.m = m /\ ret'.path \in Undetectable
            /\ ~ret'.wasRunning) =>
             /\ ret'.err # "nil"
             /\ ~u'[m].running
             /\ UNCHANGED <<gor, v2, mh, ctxCancelled>>]_vars

C8_Witness ==
    /\ ret.op = "RunConfig" /\ ret.path = "unk.json" /\ ~ret.wasRunning
    /\ ret.err = "invalid coreType in injected config" /\ ~u[ret.m].running

\* the errors of the read, parse and detection stage
DetectionErrors == {"failed to read config file", "failed to parse injected config as JSON",
                    "injected config missing required coreType field",
                    "invalid coreType in injected config"}

\* C9: a RunConfig that fails at the read, parse or detection stage leaves
\* running flag, core type, ports and stored config path as they were.
C9_DetectFailureKeepsState ==
    [][\A m \in Mgrs :
         (ret'.op = "RunConfig" /\ ret'.m = m /\ ret'.err \in DetectionErrors) =>
             /\ u'[m].running = u[m].running
             /\ u'[m].coreType = u[m].coreType
             /\ u'[m].socksPort = u[m].socksPort
             /\ u'[m].apiPort = u[m].apiPort
             /\ u'[m].configPath = u[m].configPath]_vars

\* C10: when the adapter's RunConfig fails, RunConfig returns an error that
\* names the core, the manager is Stopped and the context created for the
\* attempt is cancelled.
C10_StartFailureCleansUp ==
    (ret.op = "RunConfig" /\ ret.err = "failed to start core") =>
        /\ ret.core = DisplayName(DeclaredType(ret.path))
        /\ ~u[ret.m].running
        /\ u[ret.m].cancel = runs
        /\ u[ret.m].cancel \in tokCancelled

\* ... a previously running engine was stopped earlier in the same call
C10_Witness ==
    /\ ret.op = "RunConfig" /\ ret.err = "failed to start core" /\ ret.wasRunning
    /\ ret.core = "Mihomo"

\* the fields the setters write
Settings(um) == <<um.coreType, um.socksPort, um.apiPort>>
ValidPort(p) == p >= 1 /\ p <= 65535

\* C11: SetCoreType and SetPorts on a Running manager return an error and
\* change neither the core type nor the ports; SetPorts with a port outside
\* [1,65535] returns an error and changes no port; setCoreType with an
\* invalid CoreType returns an error and keeps the type.
C11_SettersRefuse ==
    [][\A m \in Mgrs :
         /\ (ret'.op \in {"SetCoreType", "SetPorts"} /\ ret'.m = m /\ u[m].running) =>
               (ret'.err # "nil" /\ Settings(u'[m]) = Settings(u[m]))
         /\ (ret'.op = "SetPorts" /\ ret'.m = m
               /\ ~(ValidPort(ret'.arg[1]) /\ ValidPort(ret'.arg[2]))) =>
               (ret'.err # "nil" /\ Settings(u'[m]) = Settings(u[m]))
         /\ (ret'.op = "SwitchCoreType" /\ ret'.m = m /\ ~IsValid(ret'.arg[1])) =>
               (ret'.err # "nil" /\ u'[m].coreType = u[m].coreType)]_vars

C11_Witness ==
    /\ ret.op = "SetPorts" /\ ret.wasRunning /\ u[ret.m].running
    /\ ret.arg = <<1080, 1080>> /\ ret.err = "cannot change ports while running"

\* C12: whenever the manager is Running, its SOCKS port and its API port
\* are both in [1,65535].
C12_RunningPortsInRange ==
    \A m \in Mgrs :
       u[m].running => (ValidPort(u[m].socksPort) /\ ValidPort(u[m].apiPort))

\* C13: whenever the manager is Running its stored config path is non-empty
\* and is the path the running engine was started with: the path of the
\* RunConfig that made it Running, kept by every step that leaves it Running
\* (a later RunConfig that returns an error included).
C13_RunningPathIsStartedPath ==
    [][\A m \in Mgrs :
         u'[m].running =>
            /\ u'[m].configPath # ""
            /\ (~u[m].running) =>
                  (ret'.op = "RunConfig" /\ ret'.m = m /\ u'[m].configPath = ret'.path)
            /\ u[m].running => u'[m].configPath = u[m].configPath]_vars

\* the port fields each configuration file carries: the mixed-port number
\* and the port of a host:port external-controller (0: the file has none)
ExplicitSocks(path) ==
    CASE path = "m.json" -> 7890
      [] path = "c.json" -> 70000
      [] OTHER -> 0
ExplicitAPI(path) ==
    CASE path = "m.json" -> 9090
      [] OTHER -> 0

\* a RunConfig that got past detection has returned for manager m
PastDetection(m) ==
    ret'.op = "RunConfig" /\ ret'.m = m /\ ret'.err \notin DetectionErrors

\* C14: port resolution in RunConfig: an explicit mixed-port or
\* host:port external-controller of the configuration replaces the port the
\* manager held; when the field is absent the held port is kept.
C14_PortResolution ==
    [][\A m \in Mgrs :
         PastDetection(m) =>
            /\ ExplicitSocks(ret'.path) # 0 => u'[m].socksPort = ExplicitSocks(ret'.path)
            /\ ExplicitAPI(ret'.path) # 0 => u'[m].apiPort = ExplicitAPI(ret'.path)
            /\ (ExplicitSocks(ret'.path) = 0 /\ u[m].socksPort # 0) =>
                  u'[m].socksPort = u[m].socksPort
            /\ (ExplicitAPI(ret'.path) = 0 /\ u[m].apiPort # 0) =>
                  u'[m].apiPort = u[m].apiPort]_vars

\* the ports m.json set are kept by a later RunConfig of a file without
\* port fields
C14_Witness ==
    /\ ret.op = "RunConfig" /\ ret.path = "x.json" /\ ret.err = "nil"
    /\ u[ret.m].socksPort = 7890 /\ u[ret.m].apiPort = 9090

\* the V2Ray/Xray configurations, which carry no port field
NoPortPaths == {"x.json", "v.json"}
InFallbackRange(p) == p >= 1024 /\ p <= 65535

C16_SwitchCoreType ==
    [][\A m \in Mgrs :
         /\ (ret'.op = "SwitchCoreType" /\ ret'.m = m /\ ~ret'.wasRunning
               /\ IsValid(ret'.arg[1])) =>
               /\ ret'.err = "nil"
               /\ u'[m] = [u[m] EXCEPT !.coreType = ret'.arg[1]]
               /\ UNCHANGED <<gor, v2, mh, inst, applied>>
         /\ (ret'.op = "RunConfig" /\ ret'.via = "SwitchCoreType" /\ ret'.m = m
               /\ ret'.err = "nil") =>
               /\ u'[m].running
               /\ u'[m].configPath = ret'.path
               /\ u'[m].coreType = ret'.arg[1]]_vars

\* thread c is inside Restart or SwitchCoreType, after the internal Stop
\* and before the internal RunConfig has taken the lock
BetweenStopAndStart(c) ==
    \/ call[c].pc \in {"rs_run", "sw_run"}
    \/ call[c].pc = "sw_set" /\ call[c].wasRunning

\* C17: Restart and SwitchCoreType are atomic with respect to the other
\* state-changing operations: no call of another thread changes the manager
\* between the internal stop step and the internal start step.
C17_CompositeAtomic ==
    [][\A c \in Callers :
         (BetweenStopAndStart(c) /\ call'[c] = call[c]) =>
             u'[call[c].m] = u[call[c].m]]_vars

\* the engines of the runs before the latest one
OldEngineActive ==
    \/ \E g \in 1..(runs - 1) : inst[g] = "started"
    \/ applied \in 1..(runs - 1)

\* C18: Restart on a manager Running type T with config path P whose
\* configuration is still loadable ends with the manager Running type T
\* with path P, the old instance stopped before the new one is started.
C18_RestartKeepsTypeAndPath ==
    (ret.op = "RunConfig" /\ ret.via = "Restart" /\ ret.arg = <<TRUE>>
       /\ ret.path \notin Undetectable /\ ret.cause # "failed to setup environment") =>
        /\ ret.err = "nil"
        /\ u[ret.m].running
        /\ u[ret.m].coreType = DeclaredType(ret.path)
        /\ u[ret.m].configPath = ret.path
        /\ ~OldEngineActive

\* C19: RunConfig on a manager Running type T with a configuration that
\* also targets T stops the current instance and then starts a new one,
\* ending Running(T) with the new config path; it never fails with an
\* already-running error.
C19_SameTypeRestarts ==
    (ret.op = "RunConfig" /\ ret.wasRunning /\ ret.err \notin DetectionErrors
       /\ ret.wasType = DeclaredType(ret.path)
       /\ ret.cause # "failed to setup environment") =>
        /\ ret.cause # "already running"
        /\ ret.err = "nil"
        /\ u[ret.m].running
        /\ u[ret.m].coreType = ret.wasType
        /\ u[ret.m].configPath = ret.path
        /\ ~OldEngineActive

\* the core type each name the host passes to SetCoreType stands for
NamedType(str) ==
    CASE str = <<"x", "r", "a", "y">> -> CoreTypeXray
      [] str = <<"V", "2", "r", "a", "y", " ">> -> CoreTypeV2Ray
      [] str = <<"C", "L", "A", "S", "H">> -> CoreTypeMihomo
      [] str = <<"\t", "M", "I", "H", "O", "M", "O", "\n">> -> CoreTypeMihomo
      [] str = <<"c", "l", "a", "s", "h", "-", "M", "e", "t", "a">> -> CoreTypeMihomo
      [] OTHER -> CoreTypeInvalid

\* C20: the core-type discriminator is parsed case-insensitively and
\* whitespace-trimmed: v2ray, xray and mihomo map to their own types, clash
\* and clash-meta to Mihomo, any other string gives an error with an
\* invalid CoreType, and RunConfig adopts exactly the parsed type.
C20_ParseCoreType ==
    /\ \A str \in TypeStrings :
          /\ ParsedTypes[str].type = NamedType(str)
          /\ ParsedTypes[str].err <=> ~IsValid(NamedType(str))
    /\ (ret.op = "SetCoreType" /\ ~ret.wasRunning) =>
          IF IsValid(NamedType(ret.arg))
          THEN ret.err = "nil" /\ u[ret.m].coreType = NamedType(ret.arg)
          ELSE ret.err = "failed to parse core type"
    /\ (ret.op = "RunConfig" /\ ret.path \notin {"gone.json", "bad.json", "nokey.json"}) =>
          IF IsValid(DeclaredType(ret.path))
          THEN u[ret.m].coreType = DeclaredType(ret.path)
          ELSE /\ ret.err = "invalid coreType in injected config"
               /\ u[ret.m].coreType = ret.wasType

\* " Mihomo " in the coreType field of m.json, adopted over the Xray default
C20_Witness ==
    /\ ret.op = "RunConfig" /\ ret.path = "m.json" /\ ret.wasType = CoreTypeXray
    /\ u[ret.m].coreType = CoreTypeMihomo

\* C21: preparing a configuration is idempotent: an injector applied to its
\* own output, with the same ports and log level, returns that output
\* unchanged (no duplicated inbound, API outbound, stats hook or rule)
C21_InjectIdempotent == Len(doc.hist) = 3 => doc.hist[3] = doc.hist[2]

\* the Mihomo injector alone is idempotent
C21_MihomoIdempotent ==
    doc.family = "mihomo" /\ Len(doc.hist) = 3 => doc.hist[3] = doc.hist[2]

C21_MihomoWitness ==
    /\ doc.family = "mihomo" /\ Len(doc.hist) = 3
    /\ doc.hist[2] # doc.hist[1]

\* a step in which manager m stops its core: it calls the Stop of the
\* adapter of its current type (Stop, and the stop block of RunConfig)
StopsCore(m) == u[m].running /\ ~u'[m].running

\* C22: the Stop of an adapter that is not running returns nil and changes
\* nothing of the adapter: no shutdown signal, no cancelled context, no
\* closed instance
C22_AdapterStopOnStopped ==
    [][\A m \in Mgrs :
         StopsCore(m) =>
           /\ (u[m].coreType \in V2RayFamily /\ ~v2.isRunning) =>
                 v2' = v2 /\ ctxCancelled' = ctxCancelled /\ inst' = inst
           /\ (u[m].coreType = CoreTypeMihomo /\ ~mh.isRunning) =>
                 mh' = mh /\ ctxCancelled' = ctxCancelled
           /\ ret'.op = "Stop" => ret'.err = "nil"]_vars

\* a Running manager has stopped a V2Ray adapter whose goroutine had
\* already reset the running flag: the signal channel is still empty
C22_Witness ==
    /\ ret.op = "Stop" /\ ret.wasRunning /\ ret.err = "nil"
    /\ u[ret.m].coreType \in V2RayFamily /\ u[ret.m].v2rayManager
    /\ v2.shouldOff = 0 /\ v2.ctx # 0 /\ v2.ctx \notin ctxCancelled

\* ... and a Mihomo adapter in the same situation: its context is live
C22_WitnessMihomo ==
    /\ ret.op = "Stop" /\ ret.wasRunning /\ ret.err = "nil"
    /\ u[ret.m].coreType = CoreTypeMihomo /\ u[ret.m].mihomoManager
    /\ mh.ctx # 0 /\ mh.ctx \notin ctxCancelled

\* the run the Mihomo adapter was last started for, and every other
\* runCoreAsync still executing, has a configuration that
\* config.UnmarshalRawConfig and config.ParseRawConfig accept
CurrentLoadable ==
    /\ mh.ctx # 0 /\ gor[mh.ctx].kind = "mihomo" /\ gor[mh.ctx].pc # "done"
    /\ \A g \in RunIds :
          gor[g].kind = "mihomo" /\ gor[g].pc # "done" => Files[gor[g].path].engineOK

StopsMihomo == \E m \in Mgrs : StopsCore(m) /\ u[m].coreType = CoreTypeMihomo

\* C23: for the Mihomo adapter with a loadable configuration, IsRunning()
\* stays true from RunConfig's nil return until Stop is called, is false
\* when Stop returns and stays false until the next RunConfig
C23_MihomoRunningUntilStop ==
    [][/\ (mh.isRunning /\ CurrentLoadable /\ ~mh'.isRunning) => StopsMihomo
       /\ (StopsMihomo /\ mh.exists) => ~mh'.isRunning
       /\ (~mh.isRunning /\ mh'.isRunning) => runs' = runs + 1]_vars

\* the second half alone: false after Stop, and false until a RunConfig
C23_StoppedUntilRunConfig ==
    [][/\ (StopsMihomo /\ mh.exists) => ~mh'.isRunning
       /\ (~mh.isRunning /\ mh'.isRunning) => runs' = runs + 1]_vars

\* C24: the TestConfig of an adapter never constructs or starts an engine
\* instance: the running flag, the instance handle and the context of both
\* adapters, the instances and the engine are as before the call, for
\* every configuration and whether or not the adapter is running
C24_AdapterTestConfigFrame ==
    [][ret'.op = "TestConfig" =>
         /\ v2'.isRunning = v2.isRunning /\ v2'.instance = v2.instance /\ v2'.ctx = v2.ctx
         /\ mh'.isRunning = mh.isRunning /\ mh'.ctx = mh.ctx
         /\ inst' = inst /\ applied' = applied /\ gor' = gor
         /\ ctxCancelled' = ctxCancelled /\ runs' = runs]_vars

\* a configuration was accepted by the V2Ray adapter while it was running
\* a started instance
C24_Witness ==
    /\ ret.op = "TestConfig" /\ ret.err = "nil"
    /\ u[ret.m].coreType \in V2RayFamily
    /\ v2.isRunning /\ v2.instance # 0 /\ inst[v2.instance] = "started"

\* ... and one was refused by the Mihomo adapter while it was running
C24_WitnessMihomo ==
    /\ ret.op = "TestConfig" /\ ret.err = "invalid Mihomo configuration"
    /\ u[ret.m].coreType = CoreTypeMihomo /\ mh.isRunning /\ applied = mh.ctx

\* C25: under fair scheduling no manager operation blocks for ever: every
\* call in progress returns, and the manager lock that RunConfig, Stop,
\* Restart, SwitchCoreType, TestConfig, GetStats and IsRunning wait for
\* is free again and again
C25_OperationsReturn ==
    /\ \A c \in Callers : []<>(call[c].pc \in {"idle", "off"})
    /\ []<>(\A m \in Mgrs : mu[m] = 0)

\* a thread inside Restart or SwitchCoreType waits for the manager lock
\* that the RunConfig of the other thread holds
C25_Witness ==
    \E c1, c2 \in Callers :
       /\ c1 # c2
       /\ call[c1].pc \in {"rs_stop", "rs_run", "sw_stop", "sw_set", "sw_run"}
       /\ call[c2].pc = "run_start"
       /\ mu[call[c1].m] = c2

\* the deferred function of goroutine g runs after the goroutine failed to
\* load its configuration or to construct or start its instance
ExitsFailed(g) == gor[g].pc = "failed" /\ gor'[g].pc = "done"

\* C26: when a background path that failed or panicked exits, the
\* adapter's instance handle is empty and the adapter reports not running,
\* and no host call is affected by the panic
C26_FailedPathCleansUp ==
    [][\A g \in RunIds :
         ExitsFailed(g) =>
           /\ gor[g].kind = "v2ray" => v2'.instance = 0 /\ ~V2RayIsRunning(v2')
           /\ gor[g].kind = "mihomo" => ~MihomoIsRunning(mh')
           /\ call' = call /\ ret' = NoRet]_vars

\* what does hold: the adapter reports not running, the host is unaffected
C26_FailedPathNotRunning ==
    [][\A g \in RunIds :
         ExitsFailed(g) =>
           /\ gor[g].kind = "v2ray" => ~V2RayIsRunning(v2')
           /\ gor[g].kind = "mihomo" => ~MihomoIsRunning(mh')
           /\ call' = call /\ ret' = NoRet]_vars

\* no host call is in progress and no goroutine is between its start and
\* its wait for the shutdown signal, or on its way out
Settled ==
    /\ \A c \in Callers : call[c].pc \in {"idle", "off"}
    /\ \A g \in RunIds : gor[g].pc \in {"none", "select", "blocked", "done"}

\* the adapter of manager m's current core type reports running and its
\* engine instance is live
AdapterLive(m) ==
    IF u[m].coreType \in V2RayFamily
    THEN V2RayIsRunning(v2) /\ inst[v2.instance] = "started"
    ELSE u[m].coreType = CoreTypeMihomo /\ MihomoIsRunning(mh) /\ applied # 0

\* C27: whenever the manager's IsRunning() is true and nothing is in
\* progress, the adapter of its current core type reports running with a
\* live instance; a failed background startup does not leave the manager
\* reporting Running
C27_RunningMeansAdapterLive ==
    \A m \in Mgrs : u[m].running /\ Settled => AdapterLive(m)

\* goroutine g takes a step of its way out: the cleanup after the select,
\* executor.Shutdown, the deferred function
Steps(g) ==
    /\ gor'[g] # gor[g]
    /\ gor[g].pc \in {"cleanup", "blocked", "exit", "failed"}

\* goroutine g belongs to a run of the V2Ray / Mihomo adapter that Stop
\* has ended, and the adapter has since been started again
StoppedV2Ray(g) == gor[g].kind = "v2ray" /\ g \in ctxCancelled /\ v2.ctx # g
StoppedMihomo(g) == gor[g].kind = "mihomo" /\ g \in ctxCancelled /\ mh.ctx # g

\* C28: the background path of a stopped instance never affects an
\* instance started later: it never closes or clears the new instance's
\* handle, never shuts down the newly applied engine, never resets the
\* running flag the new RunConfig set
C28_StoppedPathIsInert ==
    [][\A g \in RunIds :
         /\ (Steps(g) /\ StoppedV2Ray(g)) =>
               /\ v2.isRunning => v2'.isRunning
               /\ (v2.instance # 0 /\ v2.instance # g) =>
                     v2'.instance = v2.instance /\ inst'[v2.instance] = inst[v2.instance]
         /\ (Steps(g) /\ StoppedMihomo(g)) =>
               /\ mh.isRunning => mh'.isRunning
               /\ (applied # 0 /\ applied # g) => applied' = applied]_vars

\* the four effects, one by one
C28_KeepsNewHandle ==
    [][\A g \in RunIds :
         (Steps(g) /\ StoppedV2Ray(g) /\ v2.instance # 0 /\ v2.instance # g) =>
            v2'.instance = v2.instance /\ inst'[v2.instance] = inst[v2.instance]]_vars

C28_KeepsV2RayFlag ==
    [][\A g \in RunIds : (Steps(g) /\ StoppedV2Ray(g) /\ v2.isRunning) => v2'.isRunning]_vars

C28_KeepsMihomoFlag ==
    [][\A g \in RunIds : (Steps(g) /\ StoppedMihomo(g) /\ mh.isRunning) => mh'.isRunning]_vars

C28_KeepsNewEngine ==
    [][\A g \in RunIds :
         (Steps(g) /\ StoppedMihomo(g) /\ applied # 0 /\ applied # g) =>
            applied' = applied]_vars

\* the select of goroutine g receives the value on shouldOff
ReceivesShouldOff(g) ==
    /\ gor[g].kind = "v2ray" /\ gor[g].pc = "select" /\ gor'[g].pc = "cleanup"
    /\ v2.shouldOff = 1 /\ v2'.shouldOff = 0

\* C29: a shutdown signal on shouldOff is consumed only by the instance
\* the Stop that sent it was aimed at: the run whose goroutine receives it
\* has been stopped (Stop cancels the context of the run it stops), so an
\* instance is never shut down by a signal left from an earlier Stop
C29_SignalReachesItsTarget ==
    [][\A g \in RunIds : ReceivesShouldOff(g) => g \in ctxCancelled]_vars

\* the manager contexts created so far that have not been cancelled
LiveTokens == (1..runs) \ tokCancelled

\* C30: every transition into Running creates a fresh cancellation token;
\* a Running manager holds exactly one token that is not cancelled, the one
\* created by the RunConfig that made it Running; no token serves two
\* Running periods; in a Stopped state every token created so far has been
\* cancelled
C30_OneFreshTokenPerRun ==
    /\ [](\A m \in Mgrs :
            IF u[m].running
            THEN u[m].cancel # 0 /\ LiveTokens = {u[m].cancel}
            ELSE LiveTokens = {})
    /\ [][\A m \in Mgrs :
            (~u[m].running /\ u'[m].running) =>
               /\ runs' = runs + 1 /\ u'[m].cancel = runs'
               /\ u'[m].cancel \notin tokCancelled]_vars

\* the manager is Running on the third token created; the two before it
\* have been cancelled, by a stop or by a failed start
C30_Witness ==
    \E m \in Mgrs :
       /\ u[m].running /\ u[m].cancel = 3
       /\ tokCancelled = {1, 2}

\* C31: after the Stop of a running adapter, the goroutine spawned by the
\* matching RunConfig eventually observes the cancellation, releases its
\* instance and exits, under fair scheduling, even when a RunConfig that
\* replaces the adapter's context follows at once
C31_StoppedPathExits ==
    \A g \in RunIds : (g \in ctxCancelled) ~> (gor[g].pc = "done")

\* the goroutine of a stopped run waits on the context of a later run:
\* nothing it waits for will happen unless the host stops that run too
C31_WaitsOnLaterContext ==
    \E g \in RunIds :
       /\ g \in ctxCancelled /\ gor[g].pc \in {"select", "blocked"}
       /\ gor[g].ctx # g /\ gor[g].ctx \notin ctxCancelled
       /\ gor[g].kind = "v2ray" => v2.shouldOff = 0

\* C32: across the manager objects of one process at most one engine
\* instance is under construction, running or in teardown at a time; in
\* particular, while no run has been stopped (so that no teardown is
\* pending), two engines are never active
C32_OneEngineAcrossManagers == ctxCancelled = {} => ActiveEngines <= 1

\* a step in which an adapter is stopped: its Stop sends the shutdown
\* signal, cancels its context, closes its instance or resets its flag
AdapterStopped ==
    \/ ctxCancelled' # ctxCancelled
    \/ v2'.shouldOff > v2.shouldOff
    \/ call' # call /\ v2.isRunning /\ ~v2'.isRunning
    \/ call' # call /\ mh.isRunning /\ ~mh'.isRunning
    \/ ret' # NoRet /\ v2.isRunning /\ ~v2'.isRunning
    \/ ret' # NoRet /\ mh.isRunning /\ ~mh'.isRunning

\* C34: a manager whose running flag is false never stops an engine: every
\* step that stops an adapter is a step of a manager that was Running, so
\* the Stop, RunConfig, Restart and SwitchCoreType of a manager that is not
\* running leave an engine started by another manager alone
C34_OnlyRunningManagerStops ==
    [][AdapterStopped => \E m \in Mgrs : u[m].running /\ ~u'[m].running]_vars

\* a manager that is not running and refers to the V2Ray adapter has
\* returned from Stop while the adapter runs the engine of the other manager
C34_Witness ==
    /\ ret.op = "Stop" /\ ~ret.wasRunning /\ ~u[ret.m].running
    /\ u[ret.m].v2rayManager /\ u[ret.m].coreType \in V2RayFamily
    /\ v2.isRunning /\ v2.instance # 0 /\ inst[v2.instance] = "started"
    /\ \E m \in Mgrs : m # ret.m /\ u[m].running

\* the log writers that hold the log file open
HoldsLogFile == {g \in RunIds : logs.writer[g].pc \in {"open", "range"}}

\* C35: the Mihomo log file is owned by at most one log subscription at a
\* time: no two log-writer goroutines hold the log file open simultaneously
C35_OneWriterHoldsLogFile == Cardinality(HoldsLogFile) <= 1

\* a writer never ranges over a nil channel, on which it would block
\* forever with the log file open
C35_WriterRangesOverItsSubscription ==
    \A g \in RunIds : logs.writer[g].pc = "range" => logs.writer[g].sub = g

\* C33: the registry holds at most one adapter object per engine family:
\* no two distinct adapter objects of one family are ever made, and all the
\* calls of RunConfig and TestConfig are made on the same object
C33_OneAdapterPerFamily ==
    \A f \in Families : reg.made[f] <= 1 /\ Cardinality(reg.used[f]) <= 1

\* C37: Mihomo config injection overwrites only the mandatory control-plane
\* fields (mixed-port, bind-address, external-controller, allow-lan,
\* log-level) and leaves the caller's mode, proxies, proxy-groups, rules, dns
\* and log-file as they are, giving them a value only when they are absent
C37_MihomoInjectFrame ==
    (doc.family = "mihomo" /\ Len(doc.hist) >= 2) =>
       LET in == doc.hist[1]
           out == doc.hist[2]
       IN /\ out["mixed-port"] = Value(doc.params.socksPort)
          /\ out["bind-address"] = Value("127.0.0.1")
          /\ out["external-controller"] = Value(<<"127.0.0.1", doc.params.apiPort>>)
          /\ out["allow-lan"] = Value(FALSE)
          /\ out["log-level"] = Value(doc.params.logLevel)
          /\ \A key \in MihomoDefaultKeys \cup {"log-file"} :
                /\ in[key] # Absent => out[key] = in[key]
                /\ in[key] = Absent => out[key] # Absent

\* a document that sets every control-plane field, mode and log-file and
\* leaves rules out has been injected
C37_Witness ==
    /\ doc.family = "mihomo" /\ Len(doc.hist) >= 2
    /\ \A key \in MihomoControlKeys : doc.hist[1][key] = MihomoUser(key)
    /\ doc.hist[1]["mode"] = Value("global") /\ doc.hist[2]["mode"] = Value("global")
    /\ doc.hist[1]["log-file"] = MihomoUser("log-file")
    /\ doc.hist[1]["rules"] = Absent /\ doc.hist[2]["rules"] = List(<<"MATCH,PROXY">>)
    /\ doc.hist[2]["mixed-port"] = Value(1080)

\* the number of V2Ray/Xray fields and of Mihomo fields a text has
CountA == Cardinality(doc.keys \cap V2RayFields)
CountB == Cardinality(doc.keys \cap MihomoFields)

\* C36: heuristic detection classifies a document as the engine with the
\* higher count of matching top-level fields, requiring at least 2 fields
\* for V2Ray/Xray and at least 3 for Mihomo, and fails when neither
\* threshold is met
C36_HigherCountWins ==
    (doc.family = "detect" /\ doc.format # "badjson" /\ doc.hist # <<>>) =>
       /\ (CountA >= 2 /\ CountA > CountB) =>
             doc.hist[1].err = "nil" /\ doc.hist[1].type \in V2RayFamily
       /\ (CountB >= 3 /\ CountB > CountA) =>
             doc.hist[1].err = "nil" /\ doc.hist[1].type = CoreTypeMihomo
       /\ (CountA < 2 /\ CountB < 3) => doc.hist[1].err # "nil"

\* a JSON document with more Mihomo fields than V2Ray fields, and at least 3,
\* is classified Mihomo
C36_JSONHigherCountWins ==
    (doc.family = "detect" /\ doc.format = "json" /\ doc.hist # <<>>
       /\ CountB >= 3 /\ CountB > CountA) => doc.hist[1].type = CoreTypeMihomo

\* C38: V2Ray config preparation unwraps a wrapper document: without the
\* key coreConfig the whole document is used, an embedded document or a
\* parseable nested-document string is used in its place, and only a
\* coreConfig that is neither fails with the invalid-wrapper error
C38_WrapperUnwrapped ==
    (doc.family = "wrapper" /\ doc.readable /\ doc.json /\ doc.hist # <<>>) =>
       LET r == doc.hist[1]
           c == doc.coreConfig
       IN /\ c = Absent => r = [err |-> "nil", config |-> "whole"]
          /\ c = Map("embedded") => r = [err |-> "nil", config |-> "embedded"]
          /\ c = [kind |-> "string", parses |-> "nested"] =>
                r = [err |-> "nil", config |-> "nested"]
          /\ c \in {Value(7), [kind |-> "string", parses |-> "none"]} =>
                r.err = "invalid coreConfig format in wrapper"

\* C39: SwitchCoreType with an invalid core type on a Running manager
\* returns an error and leaves the manager as it was: the engine is not
\* stopped and the running flag, core type and config path are unchanged
C39_InvalidSwitchKeepsRunning ==
    [][\A m \in Mgrs :
         (ret'.op = "SwitchCoreType" /\ ret'.m = m /\ ret'.wasRunning
            /\ ~IsValid(ret'.arg[1])) =>
            /\ ret'.err # "nil"
            /\ u'[m].running
            /\ u'[m].configPath = ret'.path]_vars

\* C40: whenever a manager is Running its SOCKS/mixed port and its
\* control-API port are different
C40_RunningPortsDiffer ==
    \A m \in Mgrs : u[m].running => u[m].socksPort # u[m].apiPort

====
